---------------------------- MODULE Spec2Model ----------------------------
(***************************************************************************)
(* MHR keypoints -> BVH conversion (nodes/mhr_to_bvh_node.py and           *)
(* lib/mhr_skeleton.py).                                                   *)
(*                                                                         *)
(* Conventions of the model                                                *)
(*  - A Python list is a TLA+ sequence; Python index i is position i+1     *)
(*    (operator At).                                                       *)
(*  - Lengths are integers in millimetres (the tables of the source are    *)
(*    in metres with at most three decimals).                              *)
(*  - A direction is an integer vector; a unit vector v/|v| is kept as the *)
(*    primitive integer vector of the same direction.  A norm is compared  *)
(*    with the thresholds 1e-6 and 1e-8 of the source by "is the integer   *)
(*    vector zero": on the millimetre grid every non-zero norm is far      *)
(*    above them.  The 1e-8 added to a norm before dividing is below the   *)
(*    resolution of the model.                                             *)
(*  - A rotation matrix is an exact rational matrix [n, d]: entries        *)
(*    n[i][j] / d with d > 0, in lowest terms.                             *)
(*  - An angle of an Euler triple is exact: <<"deg", k, 1>> is k degrees,  *)
(*    <<"atan2", a, b>> is atan2(a, b), <<"asin", a, b>> is asin(a / b).   *)
(*  - Joint positions and root translations are integers in eighths of a   *)
(*    millimetre, so that the hip midpoint and the quarter points of the   *)
(*    pelvis-neck segment are exact.                                       *)
(*                                                                         *)
(* Specifications                                                          *)
(*  - Spec:      calls of convert_to_bvh on one instance, step by step.    *)
(*  - SpecOrder: get_bvh_joint_order on any parent list of at most         *)
(*               MaxJoints entries.                                        *)
(*  - SpecRoot:  _compute_root_rotation on hips and shoulders taken from a *)
(*               small grid.                                               *)
(***************************************************************************)
EXTENDS Integers, Sequences, FiniteSets, TLC

(***************************************************************************)
(* Bounds of the model                                                     *)
(***************************************************************************)
MaxFrames == 2
MaxJoints == 4
MaxCoord == 1
MaxDir == 3

At(list, i) == list[i + 1]

\* a function on 1..n as a list of its values
ToList(f) == f \o <<>>

Range(list) == {list[i] : i \in 1..Len(list)}

Abs(x) == IF x < 0 THEN -x ELSE x

RECURSIVE GcdNat(_, _)
GcdNat(a, b) == IF b = 0 THEN a ELSE GcdNat(b, a % b)

Gcd(a, b) == GcdNat(Abs(a), Abs(b))

(***************************************************************************)
(* lib/mhr_skeleton.py: keypoint indices and the BVH skeleton tables       *)
(***************************************************************************)
NumKeypoints == 70

LEFT_SHOULDER == 5
RIGHT_SHOULDER == 6
LEFT_HIP == 9
RIGHT_HIP == 10
NECK == 69

MHR_BVH_JOINT_NAMES ==
  << "Pelvis", "Spine", "Spine1", "Spine2", "Neck", "Head",
     "L_Hip", "R_Hip", "L_Knee", "R_Knee", "L_Ankle", "R_Ankle",
     "L_Foot", "R_Foot", "L_Collar", "R_Collar",
     "L_Shoulder", "R_Shoulder", "L_Elbow", "R_Elbow", "L_Wrist", "R_Wrist",
     "L_Thumb1", "L_Thumb2", "L_Thumb3", "L_Index1", "L_Index2", "L_Index3",
     "L_Middle1", "L_Middle2", "L_Middle3", "L_Ring1", "L_Ring2", "L_Ring3",
     "L_Pinky1", "L_Pinky2", "L_Pinky3",
     "R_Thumb1", "R_Thumb2", "R_Thumb3", "R_Index1", "R_Index2", "R_Index3",
     "R_Middle1", "R_Middle2", "R_Middle3", "R_Ring1", "R_Ring2", "R_Ring3",
     "R_Pinky1", "R_Pinky2", "R_Pinky3" >>

MHR_BVH_PARENTS ==
  << -1, 0, 1, 2, 3, 4, 0, 0, 6, 7, 8, 9, 10, 11, 3, 3,
     14, 15, 16, 17, 18, 19,
     20, 22, 23, 20, 25, 26, 20, 28, 29, 20, 31, 32, 20, 34, 35,
     21, 37, 38, 21, 40, 41, 21, 43, 44, 21, 46, 47, 21, 49, 50 >>

\* BVH joint index -> MHR keypoint index; NoKeypoint stands for None (the
\* position is interpolated)
NoKeypoint == -1

MHR_TO_BVH_KEYPOINT_MAP ==
  << NoKeypoint, NoKeypoint, NoKeypoint, NoKeypoint, 69, 0, 9, 10, 11, 12, 13, 14, 15, 18, 67, 68,
     5, 6, 7, 8, 62, 41,
     45, 44, 43, 49, 48, 47, 53, 52, 51, 57, 56, 55, 61, 60, 59,
     24, 23, 22, 28, 27, 26, 32, 31, 30, 36, 35, 34, 40, 39, 38 >>

\* T-pose offsets, millimetres, Y up
MHR_BVH_OFFSETS ==
  << <<0, 0, 0>>, <<0, 100, 0>>, <<0, 150, 0>>, <<0, 150, 0>>,
     <<0, 100, 0>>, <<0, 150, 0>>, <<100, 0, 0>>, <<-100, 0, 0>>,
     <<0, -400, 0>>, <<0, -400, 0>>, <<0, -400, 0>>, <<0, -400, 0>>,
     <<0, -50, 100>>, <<0, -50, 100>>, <<100, 0, 0>>, <<-100, 0, 0>>,
     <<100, 0, 0>>, <<-100, 0, 0>>, <<250, 0, 0>>, <<-250, 0, 0>>,
     <<250, 0, 0>>, <<-250, 0, 0>>,
     <<40, 0, 20>>, <<30, 0, 0>>, <<25, 0, 0>>,
     <<80, 0, 10>>, <<35, 0, 0>>, <<25, 0, 0>>,
     <<80, 0, 0>>, <<40, 0, 0>>, <<30, 0, 0>>,
     <<75, 0, -10>>, <<35, 0, 0>>, <<25, 0, 0>>,
     <<65, 0, -20>>, <<25, 0, 0>>, <<20, 0, 0>>,
     <<-40, 0, 20>>, <<-30, 0, 0>>, <<-25, 0, 0>>,
     <<-80, 0, 10>>, <<-35, 0, 0>>, <<-25, 0, 0>>,
     <<-80, 0, 0>>, <<-40, 0, 0>>, <<-30, 0, 0>>,
     <<-75, 0, -10>>, <<-35, 0, 0>>, <<-25, 0, 0>>,
     <<-65, 0, -20>>, <<-25, 0, 0>>, <<-20, 0, 0>> >>

BodyJointCount == 22

MHR_BVH_BODY_JOINT_NAMES == SubSeq(MHR_BVH_JOINT_NAMES, 1, BodyJointCount)

\* variant: L_Wrist (20) keeps a parent index outside the body-only table
BodyParentsWristOutside == [SubSeq(MHR_BVH_PARENTS, 1, BodyJointCount) EXCEPT ![21] = 22]

MHR_BVH_BODY_PARENTS == SubSeq(MHR_BVH_PARENTS, 1, BodyJointCount)

\* MHR_BVH_OFFSETS.get(joint_idx, default)
OffsetsGet(joint_idx, default) ==
  IF joint_idx \in 0..(Len(MHR_BVH_OFFSETS) - 1)
  THEN At(MHR_BVH_OFFSETS, joint_idx) ELSE default

(***************************************************************************)
(* children = [i for i, p in enumerate(parent_indices) if p == joint_idx]  *)
(***************************************************************************)
Children(parent_indices, joint_idx) ==
  LET IsChild(i) == At(parent_indices, i) = joint_idx
  IN  SelectSeq([i \in 1..Len(parent_indices) |-> i - 1], IsChild)

(***************************************************************************)
(* get_bvh_joint_order: traverse(0), each call appending its joint and     *)
(* then recursing into its children in index order.  A call chain deeper   *)
(* than the list is long has repeated a joint and never ends: Python       *)
(* raises RecursionError.                                                  *)
(***************************************************************************)
RecursionError == <<-1>>

RECURSIVE traverse(_, _, _)
RECURSIVE traverse_children(_, _, _, _)
traverse(parent_indices, joint_idx, depth) ==
  IF depth > Len(parent_indices) THEN RecursionError
  ELSE traverse_children(parent_indices, Children(parent_indices, joint_idx),
                         depth, <<joint_idx>>)

traverse_children(parent_indices, children, depth, joint_order) ==
  IF children = <<>> THEN joint_order
  ELSE LET sub == traverse(parent_indices, Head(children), depth + 1)
       IN  IF sub = RecursionError THEN RecursionError
           ELSE traverse_children(parent_indices, Tail(children), depth,
                                  joint_order \o sub)

RootStart == 0

\* variant: the joints in index order, as if the declaration order of the
\* table were already depth-first
joint_order_by_index(parent_indices) ==
  ToList([i \in 1..Len(parent_indices) |-> i - 1])

get_bvh_joint_order(parent_indices) == traverse(parent_indices, RootStart, 0)

(***************************************************************************)
(* Vectors and exact rational matrices (numpy arrays of the source)        *)
(***************************************************************************)
Zero3 == <<0, 0, 0>>

VAdd(a, b) == <<a[1] + b[1], a[2] + b[2], a[3] + b[3]>>

VSub(a, b) == <<a[1] - b[1], a[2] - b[2], a[3] - b[3]>>

VScale(k, a) == <<k * a[1], k * a[2], k * a[3]>>

VDiv(a, k) == <<a[1] \div k, a[2] \div k, a[3] \div k>>

Dot(a, b) == a[1] * b[1] + a[2] * b[2] + a[3] * b[3]

\* np.cross
Cross(a, b) ==
  << a[2] * b[3] - a[3] * b[2],
     a[3] * b[1] - a[1] * b[3],
     a[1] * b[2] - a[2] * b[1] >>

\* the primitive integer vector with the direction of a: a / |a| as a direction
Prim(a) ==
  LET g == Gcd(Gcd(a[1], a[2]), a[3])
  IN  IF g = 0 THEN Zero3 ELSE VDiv(a, g)

\* the integer square root, by bisection of lo..hi (lo * lo <= n < hi * hi)
RECURSIVE IsqrtIn(_, _, _)
IsqrtIn(n, lo, hi) ==
  IF hi - lo <= 1 THEN lo
  ELSE LET mid == (lo + hi) \div 2
       IN  IF mid * mid <= n THEN IsqrtIn(n, mid, hi) ELSE IsqrtIn(n, lo, mid)

\* (46341 squared no longer fits a 32-bit integer)
Isqrt(n) == IsqrtIn(n, 0, IF n < 46340 THEN n + 1 ELSE 46341)

IsSquare(n) == n >= 0 /\ Isqrt(n) * Isqrt(n) = n

Eye3 == <<<<1, 0, 0>>, <<0, 1, 0>>, <<0, 0, 1>>>>

Zero3x3 == <<Zero3, Zero3, Zero3>>

\* a matrix with a NaN entry (0/0 of the source): it stays NaN in products
NaNMat == [n |-> Zero3x3, d |-> 0]

\* a matrix with an irrational entry, which the model cannot hold
IrrationalMat == [n |-> Zero3x3, d |-> -1]

IsFinite(M) == M.d > 0

MatGcd(n) ==
  Gcd(Gcd(Gcd(Gcd(n[1][1], n[1][2]), Gcd(n[1][3], n[2][1])),
          Gcd(Gcd(n[2][2], n[2][3]), Gcd(n[3][1], n[3][2]))), n[3][3])

\* the matrix with entry (i, j) given by Op(i, j), written out
Mat3(Op(_, _)) ==
  << <<Op(1, 1), Op(1, 2), Op(1, 3)>>,
     <<Op(2, 1), Op(2, 2), Op(2, 3)>>,
     <<Op(3, 1), Op(3, 2), Op(3, 3)>> >>

\* n / d in lowest terms, d > 0
MkMat(n, d) ==
  LET g == Gcd(MatGcd(n), d)
  IN  [n |-> <<VDiv(n[1], g), VDiv(n[2], g), VDiv(n[3], g)>>, d |-> d \div g]

\* np.eye(3)
EyeMat == [n |-> Eye3, d |-> 1]

\* A @ B
MatMul(A, B) ==
  IF ~IsFinite(A) THEN A
  ELSE IF ~IsFinite(B) THEN B
  ELSE LET Entry(i, j) == A.n[i][1] * B.n[1][j] + A.n[i][2] * B.n[2][j]
                          + A.n[i][3] * B.n[3][j]
       IN  MkMat(Mat3(Entry), A.d * B.d)

\* A.T
MatT(A) ==
  LET Entry(i, j) == A.n[j][i]
  IN  [n |-> Mat3(Entry), d |-> A.d]

\* the direction of A @ v (the positive factor 1 / A.d is dropped)
MatVecDir(A, v) == <<Dot(A.n[1], v), Dot(A.n[2], v), Dot(A.n[3], v)>>

\* K = [[0, -a3, a2], [a3, 0, -a1], [-a2, a1, 0]]
Skew(a) == <<<<0, -a[3], a[2]>>, <<a[3], 0, -a[1]>>, <<-a[2], a[1], 0>>>>

\* K @ K for K = Skew(a)
SkewSq(a) ==
  LET Entry(i, j) == a[i] * a[j] - (IF i = j THEN Dot(a, a) ELSE 0)
  IN  Mat3(Entry)

(***************************************************************************)
(* rotation_matrix_from_vectors(vec_from, vec_to), both given as integer   *)
(* directions; the function normalises them itself.  With u, v the         *)
(* primitive vectors, w = u x v, s = |u||v|:                               *)
(*   cross = w / s, dot = u.v / s, sin(angle) K = Skew(w) / s,             *)
(*   (1 - cos(angle)) K @ K = SkewSq(w) / (s (s + u.v)).                   *)
(***************************************************************************)
\* variant: the half-turn axis is always taken from the X axis
PerpAlwaysX(u) == <<1, 0, 0>>

PerpFor(u) ==
  \* abs(vec_from[0]) < 0.9 for the unit vector u / |u|
  IF 100 * u[1] * u[1] < 81 * Dot(u, u) THEN <<1, 0, 0>> ELSE <<0, 1, 0>>

HalfTurn(u) ==
  LET axis == Prim(Cross(u, PerpFor(u)))
      D    == Dot(axis, axis)
      Entry(i, j) == 2 * axis[i] * axis[j] - (IF i = j THEN D ELSE 0)
  IN  IF D = 0 THEN NaNMat ELSE MkMat(Mat3(Entry), D)

Rodrigues(u, v) ==
  LET w   == Cross(u, v)
      dot == Dot(u, v)
      ss  == Dot(u, u) * Dot(v, v)
      s   == Isqrt(ss)
      K   == Skew(w)
      KK  == SkewSq(w)
      Entry(i, j) == (IF i = j THEN s * (s + dot) ELSE 0)
                     + (s + dot) * K[i][j] + KK[i][j]
  IN  IF ~IsSquare(ss) THEN IrrationalMat
      ELSE MkMat(Mat3(Entry), s * (s + dot))

rotation_matrix_from_vectors(vec_from, vec_to) ==
  LET u == Prim(vec_from)
      v == Prim(vec_to)
  IN  IF Cross(u, v) = Zero3
      THEN IF Dot(u, v) > 0 THEN EyeMat ELSE HalfTurn(u)
      ELSE Rodrigues(u, v)

(***************************************************************************)
(* R.from_matrix(local_rot).as_euler('ZXY', degrees=True): the angles      *)
(* (z, x, y) with local_rot = Rz(z) Rx(x) Ry(y):                           *)
(*   x = asin(m21), z = atan2(-m01, m11), y = atan2(-m20, m22);            *)
(* in gimbal lock (|m21| = 1) y is set to 0 and z = atan2(m10, m00).       *)
(***************************************************************************)
Atan2Deg(a, b) ==
  LET g == Gcd(a, b)
  IN  IF a = 0 /\ b >= 0 THEN <<"deg", 0, 1>>
      ELSE IF a = 0 THEN <<"deg", 180, 1>>
      ELSE IF b = 0 THEN <<"deg", IF a > 0 THEN 90 ELSE -90, 1>>
      ELSE <<"atan2", a \div g, b \div g>>

AsinDeg(a, b) ==
  LET g == Gcd(a, b)
  IN  IF a = 0 THEN <<"deg", 0, 1>>
      ELSE IF Abs(a) = b THEN <<"deg", IF a > 0 THEN 90 ELSE -90, 1>>
      ELSE <<"asin", a \div g, b \div g>>

EulerZero == <<<<"deg", 0, 1>>, <<"deg", 0, 1>>, <<"deg", 0, 1>>>>

EulerNaN == <<<<"nan", 0, 1>>, <<"nan", 0, 1>>, <<"nan", 0, 1>>>>

as_euler_ZXY(M) ==
  IF ~IsFinite(M) THEN EulerNaN
  ELSE IF Abs(M.n[3][2]) = M.d
       THEN <<Atan2Deg(M.n[2][1], M.n[1][1]), AsinDeg(M.n[3][2], M.d),
              <<"deg", 0, 1>>>>
       ELSE <<Atan2Deg(-M.n[1][2], M.n[2][2]), AsinDeg(M.n[3][2], M.d),
              Atan2Deg(-M.n[3][1], M.n[3][3])>>

(***************************************************************************)
(* MHRtoBVH._compute_root_rotation(keypoints).  A column is [v, q]: the    *)
(* vector v / sqrt(q).  up and right are directions of the doubled         *)
(* vectors 2 (shoulder_center - hip_center) and right_hip - left_hip.      *)
(***************************************************************************)
Unit(a) == [v |-> Prim(a), q |-> Dot(Prim(a), Prim(a))]

SReduce(c) ==
  LET g == Gcd(Gcd(c.v[1], c.v[2]), c.v[3])
  IN  IF g > 1 /\ c.q % (g * g) = 0
      THEN [v |-> VDiv(c.v, g), q |-> c.q \div (g * g)] ELSE c

SCross(a, b) == SReduce([v |-> Cross(a.v, b.v), q |-> a.q * b.q])

FallbackForward == <<0, 0, 1>>

compute_root_rotation(keypoints) ==
  LET left_hip       == At(keypoints, LEFT_HIP)
      right_hip      == At(keypoints, RIGHT_HIP)
      left_shoulder  == At(keypoints, LEFT_SHOULDER)
      right_shoulder == At(keypoints, RIGHT_SHOULDER)
      up0     == VSub(VAdd(left_shoulder, right_shoulder),
                      VAdd(left_hip, right_hip))
      up      == IF up0 = Zero3 THEN Unit(<<0, 1, 0>>) ELSE Unit(up0)
      right0  == VSub(right_hip, left_hip)
      right   == IF right0 = Zero3 THEN Unit(<<1, 0, 0>>) ELSE Unit(right0)
      fwd0    == Cross(right.v, up.v)
      forward == IF fwd0 = Zero3 THEN Unit(FallbackForward) ELSE Unit(fwd0)
      right2  == SCross(up, forward)
  IN  <<right2, up, forward>>

\* np.column_stack of three columns as a rational matrix
ColumnsToMat(cols) ==
  IF \E j \in 1..3 : ~IsSquare(cols[j].q) THEN IrrationalMat
  ELSE LET s == [j \in 1..3 |-> Isqrt(cols[j].q)]
           D == s[1] * s[2] * s[3]
           Entry(i, j) == cols[j].v[i] * (D \div s[j])
       IN  MkMat(Mat3(Entry), D)

(***************************************************************************)
(* extract_bvh_positions_from_mhr(mhr_keypoints, include_hands):           *)
(* positions in eighths of a millimetre                                    *)
(***************************************************************************)
NumJoints(with_hands) ==
  IF with_hands THEN Len(MHR_BVH_JOINT_NAMES)
  ELSE Len(MHR_BVH_BODY_JOINT_NAMES)

\* mhr_keypoints[i] with i >= len(mhr_keypoints) raises IndexError
IndexError == << <<-1>> >>

\* the unguarded reads of lines 437, 438 and 443 succeed
HipsAndNeckReadable(mhr_keypoints) ==
  /\ LEFT_HIP < Len(mhr_keypoints)
  /\ RIGHT_HIP < Len(mhr_keypoints)
  /\ NECK < Len(mhr_keypoints)

\* variant: the copying loop stops one joint short (range(4, num_joints - 1))
extract_bvh_positions_one_short(mhr_keypoints, with_hands) ==
  IF ~HipsAndNeckReadable(mhr_keypoints) THEN IndexError ELSE
  LET num_joints == NumJoints(with_hands)
      left_hip   == At(mhr_keypoints, LEFT_HIP)
      right_hip  == At(mhr_keypoints, RIGHT_HIP)
      pelvis     == VScale(4, VAdd(left_hip, right_hip))
      neck       == At(mhr_keypoints, NECK)
      quarter    == VSub(VScale(2, neck), VAdd(left_hip, right_hip))
  IN  ToList([i \in 1..num_joints |->
         LET bvh_idx == i - 1
             mhr_idx == At(MHR_TO_BVH_KEYPOINT_MAP, bvh_idx)
         IN  IF bvh_idx = 0 THEN pelvis
             ELSE IF bvh_idx \in 1..3 THEN VAdd(pelvis, VScale(bvh_idx, quarter))
             ELSE IF bvh_idx < num_joints - 1
                     /\ mhr_idx # NoKeypoint /\ mhr_idx < Len(mhr_keypoints)
                  THEN VScale(8, At(mhr_keypoints, mhr_idx))
                  ELSE Zero3])

extract_bvh_positions_from_mhr(mhr_keypoints, with_hands) ==
  IF ~HipsAndNeckReadable(mhr_keypoints) THEN IndexError ELSE
  LET num_joints == NumJoints(with_hands)
      left_hip   == At(mhr_keypoints, LEFT_HIP)
      right_hip  == At(mhr_keypoints, RIGHT_HIP)
      pelvis     == VScale(4, VAdd(left_hip, right_hip))
      neck       == At(mhr_keypoints, NECK)
      \* a quarter of spine_dir = neck - pelvis
      quarter    == VSub(VScale(2, neck), VAdd(left_hip, right_hip))
  IN  ToList([i \in 1..num_joints |->
         LET bvh_idx == i - 1
             mhr_idx == At(MHR_TO_BVH_KEYPOINT_MAP, bvh_idx)
         IN  IF bvh_idx = 0 THEN pelvis
             ELSE IF bvh_idx \in 1..3 THEN VAdd(pelvis, VScale(bvh_idx, quarter))
             ELSE IF mhr_idx # NoKeypoint /\ mhr_idx < Len(mhr_keypoints)
                  THEN VScale(8, At(mhr_keypoints, mhr_idx))
                  ELSE Zero3])

(***************************************************************************)
(* MHRtoBVH._compute_rest_directions(joint_names, parent_indices)          *)
(***************************************************************************)
FirstChild(children) == Head(children)

compute_rest_directions(joint_names, parent_indices) ==
  ToList([i \in 1..Len(joint_names) |->
     LET children == Children(parent_indices, i - 1)
     IN  IF children # <<>>
         THEN LET child_offset == OffsetsGet(FirstChild(children), <<0, 1, 0>>)
              IN  IF child_offset # Zero3 THEN Prim(child_offset)
                  ELSE <<0, 1, 0>>
         ELSE <<0, 1, 0>>])

(***************************************************************************)
(* MHRtoBVH._compute_rotations: the body of the joint loop for one joint   *)
(* and the loop over the joints of one frame.  accumulated is the dict     *)
(* accumulated_rotations: joints 0..joint_idx-1 have an entry.             *)
(***************************************************************************)
AccGet(accumulated, parent_idx) ==
  IF parent_idx \in 0..(Len(accumulated) - 1)
  THEN At(accumulated, parent_idx) ELSE EyeMat

\* variant: a leaf joint gets the identity as its global rotation
LeafRotationIdentity(parent_rot) == EyeMat

LeafRotation(parent_rot) == parent_rot

\* variant: the bone direction is used whatever its length
joint_global_rotation_unguarded(kp, parent_indices, bvh_positions, rest_directions, accumulated, joint_idx) ==
  LET parent_idx == At(parent_indices, joint_idx)
      parent_rot == AccGet(accumulated, parent_idx)
      children   == Children(parent_indices, joint_idx)
  IN  IF parent_idx = -1 THEN ColumnsToMat(compute_root_rotation(kp))
      ELSE IF children # <<>>
      THEN LET child_idx   == FirstChild(children)
               current_dir == VSub(At(bvh_positions, child_idx),
                                   At(bvh_positions, joint_idx))
               rest_dir    == At(rest_directions, joint_idx)
               transformed_rest == MatVecDir(parent_rot, rest_dir)
           IN  MatMul(rotation_matrix_from_vectors(transformed_rest, current_dir),
                      parent_rot)
      ELSE LeafRotation(parent_rot)

joint_global_rotation(kp, parent_indices, bvh_positions, rest_directions, accumulated, joint_idx) ==
  LET parent_idx == At(parent_indices, joint_idx)
      parent_rot == AccGet(accumulated, parent_idx)
      children   == Children(parent_indices, joint_idx)
  IN  IF parent_idx = -1 THEN ColumnsToMat(compute_root_rotation(kp))
      ELSE IF children # <<>>
      THEN LET child_idx   == FirstChild(children)
               current_dir == VSub(At(bvh_positions, child_idx),
                                   At(bvh_positions, joint_idx))
               rest_dir    == At(rest_directions, joint_idx)
               transformed_rest == MatVecDir(parent_rot, rest_dir)
               local_rot   == rotation_matrix_from_vectors(transformed_rest,
                                                           current_dir)
           IN  IF current_dir # Zero3 THEN MatMul(local_rot, parent_rot)
               ELSE parent_rot
      ELSE LeafRotation(parent_rot)

\* variant: the parent rotation is applied without being transposed
joint_local_rotation_untransposed(parent_indices, accumulated, joint_idx, global_rot) ==
  LET parent_idx == At(parent_indices, joint_idx)
  IN  IF parent_idx = -1 THEN global_rot
      ELSE MatMul(AccGet(accumulated, parent_idx), global_rot)

joint_local_rotation(parent_indices, accumulated, joint_idx, global_rot) ==
  LET parent_idx == At(parent_indices, joint_idx)
  IN  IF parent_idx = -1 THEN global_rot
      ELSE MatMul(MatT(AccGet(accumulated, parent_idx)), global_rot)

\* the body of "for joint_idx in range(num_joints)" for one joint
solve_joint(kp, parent_indices, bvh_positions, rest_directions, solved, joint_idx) ==
  LET global_rot == joint_global_rotation(kp, parent_indices, bvh_positions,
                      rest_directions, solved.accumulated, joint_idx)
      local_rot  == joint_local_rotation(parent_indices, solved.accumulated,
                                         joint_idx, global_rot)
  IN  [eulers |-> Append(solved.eulers, as_euler_ZXY(local_rot)),
       accumulated |-> Append(solved.accumulated, global_rot)]

\* the iterations first .. last - 1 of the joint loop, in index order: the
\* first half of the range runs to its end, then the second half continues
\* from the state it left (binding it to a variable keeps evaluation shallow)
RECURSIVE solve_joints(_, _, _, _, _, _, _)
solve_joints(kp, parent_indices, bvh_positions, rest_directions, solved, first, last) ==
  IF first >= last THEN solved
  ELSE IF last = first + 1
  THEN solve_joint(kp, parent_indices, bvh_positions, rest_directions, solved, first)
  ELSE LET mid == (first + last) \div 2
           first_half == {solve_joints(kp, parent_indices, bvh_positions,
                                       rest_directions, solved, first, mid)}
       IN  CHOOSE done \in
             {solve_joints(kp, parent_indices, bvh_positions, rest_directions,
                           half, mid, last) : half \in first_half} : TRUE

\* what one pass of the frame loop leaves: euler_rotations[frame],
\* translations[frame] = bvh_positions[0] and the dict of the frame
frame_pose(bvh_positions, solved) ==
  [euler |-> solved.eulers,
   translation |-> At(bvh_positions, 0),
   accumulated |-> solved.accumulated]

\* one pass of "for frame in range(num_frames)": [euler, translation]
solve_frame(kp, joint_names, parent_indices, with_hands) ==
  LET bvh_positions   == extract_bvh_positions_from_mhr(kp, with_hands)
      rest_directions == compute_rest_directions(joint_names, parent_indices)
      solved          == solve_joints(kp, parent_indices, bvh_positions,
                                      rest_directions,
                                      [eulers |-> <<>>, accumulated |-> <<>>],
                                      0, Len(parent_indices))
  IN  frame_pose(bvh_positions, solved)

(***************************************************************************)
(* Keypoint frames the conversions are run on (the inputs of the model)    *)
(***************************************************************************)
RECURSIVE AccumulatedOffset(_)
AccumulatedOffset(joint_idx) ==
  IF At(MHR_BVH_PARENTS, joint_idx) = -1 THEN At(MHR_BVH_OFFSETS, joint_idx)
  ELSE VAdd(AccumulatedOffset(At(MHR_BVH_PARENTS, joint_idx)),
            At(MHR_BVH_OFFSETS, joint_idx))

\* the joint a keypoint is copied to, or NoKeypoint
JointOfKeypoint(mhr_idx) ==
  IF \E j \in 0..51 : At(MHR_TO_BVH_KEYPOINT_MAP, j) = mhr_idx
  THEN CHOOSE j \in 0..51 : At(MHR_TO_BVH_KEYPOINT_MAP, j) = mhr_idx
  ELSE NoKeypoint

\* every landmark at its accumulated rest offset, scaled by k; the
\* landmarks no joint reads are at the origin
TPoseFrame(k) ==
  ToList([m \in 1..NumKeypoints |->
     IF JointOfKeypoint(m - 1) = NoKeypoint THEN Zero3
     ELSE VScale(k, AccumulatedOffset(JointOfKeypoint(m - 1)))])

\* the T-pose with the left forearm and hand turned 90 degrees about the
\* elbow (about Z: the forearm points up)
LeftForearmJoints == {20} \cup (22..36)

BentFrame ==
  ToList([m \in 1..NumKeypoints |->
     LET j == JointOfKeypoint(m - 1)
         e == AccumulatedOffset(18)
         r == VSub(AccumulatedOffset(j), e)
     IN  IF j = NoKeypoint THEN Zero3
         ELSE IF j \in LeftForearmJoints THEN VAdd(e, <<-r[2], r[1], r[3]>>)
         ELSE AccumulatedOffset(j)])

Frames == <<TPoseFrame(1), TPoseFrame(2), BentFrame>>

\* a frame with the landmark of one joint moved to a new position
WithJointAt(kp_frame, joint_idx, position) ==
  ToList([m \in 1..Len(kp_frame) |->
     IF m - 1 = At(MHR_TO_BVH_KEYPOINT_MAP, joint_idx) THEN position
     ELSE kp_frame[m]])

\* the T-pose scaled by 9 with only the left elbow landmark moved: turned
\* about the shoulder to the direction (-1, 8, 4) / 9, the upper arm keeping
\* its length (9 x 250 = 2250)
ElbowFrame ==
  WithJointAt(TPoseFrame(9), 18,
              VAdd(VScale(9, AccumulatedOffset(16)), <<-250, 2000, 1000>>))

\* the T-pose with the left elbow landmark on the left shoulder landmark: the
\* bone from L_Shoulder to its first child has length zero
ZeroBoneFrame == WithJointAt(TPoseFrame(1), 18, AccumulatedOffset(16))

\* the T-pose with every landmark moved by the same vector: the root is
\* away from the origin
ShiftedFrame ==
  ToList([m \in 1..NumKeypoints |-> VAdd(TPoseFrame(1)[m], <<30, 900, -20>>)])

\* the frames of every specification: Frames, then the special ones
AllFrames ==
  <<TPoseFrame(1), TPoseFrame(2), BentFrame, TPoseFrame(9), ElbowFrame, ZeroBoneFrame, ShiftedFrame>>

JointNamesFor(with_hands) ==
  IF with_hands THEN MHR_BVH_JOINT_NAMES ELSE MHR_BVH_BODY_JOINT_NAMES

\* variant: Spine (1) hangs under Spine1 (2), which hangs under the root
ParentsSpineSwapped(with_hands) == [(IF with_hands THEN MHR_BVH_PARENTS ELSE MHR_BVH_BODY_PARENTS) EXCEPT ![2] = 2, ![3] = 0]

ParentsFor(with_hands) ==
  IF with_hands THEN MHR_BVH_PARENTS ELSE MHR_BVH_BODY_PARENTS

\* solve_frame is a function of its arguments: its values on the frames and
\* the two topologies of the model, computed once.  SolvedFrames[f] is
\* <<body-only, body+hands>>.
SolvedFrames ==
  ToList([f \in 1..Len(AllFrames) |->
    << solve_frame(AllFrames[f], JointNamesFor(FALSE), ParentsFor(FALSE), FALSE),
       solve_frame(AllFrames[f], JointNamesFor(TRUE), ParentsFor(TRUE), TRUE) >>])

Solved(f, with_hands) == SolvedFrames[f][IF with_hands THEN 2 ELSE 1]

(***************************************************************************)
(* MHRtoBVH._write_joint and the lines of the BVH text.  A line is a       *)
(* record: t the keyword, ind the number of leading spaces, name the joint *)
(* name, n a declared count, vals the values that follow the keyword.      *)
(***************************************************************************)
Line(t, ind, name, n, vals) ==
  [t |-> t, ind |-> ind, name |-> name, n |-> n, vals |-> vals]

RootChannels ==
  <<"Xposition", "Yposition", "Zposition", "Zrotation", "Xrotation", "Yrotation">>

JointChannels == <<"Zrotation", "Xrotation", "Yrotation">>

\* variant: a leaf joint closes without an End Site block
EndSiteLinesOmitted(ind) == <<>>

EndSiteLines(ind) ==
  << Line("End Site", ind + 2, "", 0, <<>>),
     Line("{", ind + 2, "", 0, <<>>),
     Line("OFFSET", ind + 4, "", 0, Zero3),
     Line("}", ind + 2, "", 0, <<>>) >>

\* variant: every joint declares the six channels of the root
JointHeaderSixChannels(joint_idx, ind, joint_name, scale) ==
  << Line(IF joint_idx = 0 THEN "ROOT" ELSE "JOINT", ind, joint_name, 0, <<>>),
     Line("{", ind, "", 0, <<>>),
     Line("OFFSET", ind + 2, "", 0,
          VScale(scale, OffsetsGet(joint_idx, Zero3))),
     Line("CHANNELS", ind + 2, "", 6, RootChannels) >>

\* variant: the ROOT / JOINT line is written without indentation
JointHeaderFlat(joint_idx, ind, joint_name, scale) ==
  << Line(IF joint_idx = 0 THEN "ROOT" ELSE "JOINT", 0, joint_name, 0, <<>>),
     Line("{", ind, "", 0, <<>>),
     Line("OFFSET", ind + 2, "", 0,
          VScale(scale, OffsetsGet(joint_idx, Zero3))),
     IF joint_idx = 0
     THEN Line("CHANNELS", ind + 2, "", 6, RootChannels)
     ELSE Line("CHANNELS", ind + 2, "", 3, JointChannels) >>

JointHeader(joint_idx, ind, joint_name, scale) ==
  << Line(IF joint_idx = 0 THEN "ROOT" ELSE "JOINT", ind, joint_name, 0, <<>>),
     Line("{", ind, "", 0, <<>>),
     Line("OFFSET", ind + 2, "", 0,
          VScale(scale, OffsetsGet(joint_idx, Zero3))),
     IF joint_idx = 0
     THEN Line("CHANNELS", ind + 2, "", 6, RootChannels)
     ELSE Line("CHANNELS", ind + 2, "", 3, JointChannels) >>

RECURSIVE write_joint(_, _, _, _, _)
RECURSIVE write_joint_children(_, _, _, _, _)
write_joint(self_joint_names, self_parent_indices, joint_idx, indent_level, scale) ==
  LET ind      == 2 * indent_level
      children == Children(self_parent_indices, joint_idx)
  IN  JointHeader(joint_idx, ind, At(self_joint_names, joint_idx), scale)
      \o (IF children # <<>>
          THEN write_joint_children(self_joint_names, self_parent_indices,
                                    children, indent_level + 1, scale)
          ELSE EndSiteLines(ind))
      \o << Line("}", ind, "", 0, <<>>) >>

write_joint_children(self_joint_names, self_parent_indices, children, indent_level, scale) ==
  IF children = <<>> THEN <<>>
  ELSE write_joint(self_joint_names, self_parent_indices, Head(children),
                   indent_level, scale)
       \o write_joint_children(self_joint_names, self_parent_indices,
                               Tail(children), indent_level, scale)

\* variant: the root writes its rotation only, like every other joint
JointFrameDataRotationOnly(joint_idx, rotation, translation, scale) == rotation

\* variant: the root translation is written as it was solved
JointFrameDataUnscaled(joint_idx, rotation, translation, scale) ==
  (IF joint_idx = 0
   THEN << <<"num", translation[1], 8>>,
           <<"num", translation[2], 8>>,
           <<"num", translation[3], 8>> >>
   ELSE <<>>)
  \o rotation

\* the values one joint adds to a motion line
JointFrameData(joint_idx, rotation, translation, scale) ==
  (IF joint_idx = 0
   THEN << <<"num", translation[1] * scale, 8>>,
           <<"num", translation[2] * scale, 8>>,
           <<"num", translation[3] * scale, 8>> >>
   ELSE <<>>)
  \o rotation

RECURSIVE FrameData(_, _, _, _)
FrameData(joint_order, rotations_f, translation, scale) ==
  IF joint_order = <<>> THEN <<>>
  ELSE JointFrameData(Head(joint_order), At(rotations_f, Head(joint_order)),
                      translation, scale)
       \o FrameData(Tail(joint_order), rotations_f, translation, scale)

(***************************************************************************)
(* State                                                                   *)
(***************************************************************************)
VARIABLES
  x_keypoints, x_hands, x_positions, x_done,   \* extract_bvh_positions_from_mhr on its own
  pc,                  \* where the running convert_to_bvh call is
  output_path,         \* the argument output_path: [absolute, name, suffix]
  mhr_params,          \* [has_keypoints, keypoints_3d]: keypoints_3d is the
                       \* sequence of the frames, each an index into Frames
  fps, scale, include_hands,
  dir_created,         \* output_path.parent exists
  frame,               \* the loop variable "frame" of both frame loops
  euler_rotations,     \* [F][J] Euler triples solved so far
  translations,        \* [F] root translations solved so far
  accumulated_rotations, \* the dict of the frame solved last (<<>>: none)
  self_joint_names,    \* self._joint_names (<<>>: not set)
  self_parent_indices, \* self._parent_indices (<<>>: not set)
  joint_order,         \* local of _write_bvh
  lines,               \* local of _write_bvh
  file,                \* the lines of the file at output_path (<<>>: none)
  file_written,        \* the running call has written the file
  result,              \* what the last call returned
  kept,                \* the result the caller kept of the call before
  t_parents, t_order, t_done,   \* get_bvh_joint_order on its own
  r_keypoints, r_rotation, r_done,   \* _compute_root_rotation on its own
  h_from, h_rotation, h_done,   \* rotation_matrix_from_vectors(v, -v) on its own
  l_parent_rot, l_rest, l_turn, l_local, l_done,  \* a two-joint chain on its own
  j_pc, j_keypoints_3d, j_include_hands,   \* _compute_rotations joint by joint
  j_frame, j_joint_idx,      \* its loop variables "frame" and "joint_idx"
  j_accumulated,             \* accumulated_rotations of the frame being solved
  j_locals,                  \* local_rot of the joints solved in this frame
  j_euler_rotations,         \* euler_rotations[F][J] filled so far
  j_defaulted,               \* the <<frame, joint>> whose .get fell back to np.eye(3)
  j_raised,                  \* the <<frame, joint>> whose Euler conversion raised
  j_raises_on,               \* the kinds of matrix the installed library rejects
  w_pc, w_stack, w_lines,    \* per thread: _write_bvh calls running on one instance
  e_pc,                      \* where the running MHRToFBX.export_to_fbx call is
  e_mhr_params, e_character_path, e_fps,   \* its arguments
  e_num_frames,              \* its local num_frames
  e_temp_dir,                \* "none", "exists" or "removed": the directory mkdtemp made
  e_bvh_file,                \* the file at bvh_file_path exists
  e_retargeted,              \* BVHtoFBX.retarget has been called
  e_result                   \* the tuple it returned

cvars == << pc, output_path, mhr_params, fps, scale, include_hands, dir_created, frame,
            euler_rotations, translations, accumulated_rotations,
            self_joint_names,
            self_parent_indices, joint_order, lines, file, file_written,
            result, kept >>

tvars == << t_parents, t_order, t_done >>

rvars == << r_keypoints, r_rotation, r_done >>

xvars == << x_keypoints, x_hands, x_positions, x_done >>

hvars == << h_from, h_rotation, h_done >>

lvars == << l_parent_rot, l_rest, l_turn, l_local, l_done >>

jvars == << j_pc, j_keypoints_3d, j_include_hands, j_frame, j_joint_idx,
            j_accumulated, j_locals, j_euler_rotations, j_defaulted, j_raised,
            j_raises_on >>

wvars == << w_pc, w_stack, w_lines >>

evars == << e_pc, e_mhr_params, e_character_path, e_fps, e_num_frames,
            e_temp_dir, e_bvh_file, e_retargeted, e_result >>

vars == << cvars, tvars, rvars, xvars, hvars, lvars, jvars, wvars, evars >>

(***************************************************************************)
(* Inputs of convert_to_bvh                                                *)
(***************************************************************************)
RECURSIVE SeqsUpTo(_, _)
SeqsUpTo(S, n) ==
  IF n = 0 THEN {<<>>}
  ELSE LET shorter == SeqsUpTo(S, n - 1)
       IN  shorter \cup {Append(s, x) : s \in shorter, x \in S}

KeypointSequences == SeqsUpTo(1..Len(Frames), MaxFrames)

MhrParams ==
  {[has_keypoints |-> FALSE, keypoints_3d |-> <<>>]}
  \cup {[has_keypoints |-> TRUE, keypoints_3d |-> k] : k \in KeypointSequences}

FpsValues == {-30, 0, 30}

ScaleValues == {0, 1, 2}

\* the paths convert_to_bvh is called with: a relative path that ends in
\* .bvh, an absolute path with another suffix, and a path with an empty name
OutputPaths ==
  {[absolute |-> FALSE, name |-> "motion", suffix |-> ".bvh"],
   [absolute |-> TRUE, name |-> "motion", suffix |-> ".txt"],
   [absolute |-> FALSE, name |-> "", suffix |-> ""]}

\* with_suffix raises ValueError on a path with an empty name
EmptyName == "PosixPath('.') has an empty name"

\* variant: the suffix is left as it is
KeepSuffix(path) == path

\* if not output_path.suffix == '.bvh': output_path.with_suffix('.bvh')
EnsureBvhSuffix(path) == [path EXCEPT !.suffix = ".bvh"]

\* str(output_path.absolute())
Absolute(path) == [path EXCEPT !.absolute = TRUE]

\* status "none": no call has returned.  error is str(e), info the third
\* element of the returned tuple (its first line and the rest); the dict is
\* the fields file_path .. num_joints, empty when status is not "ok"
NoResult ==
  [status |-> "none", error |-> "", file_path |-> "", num_frames |-> 0,
   fps |-> 0, scale |-> 0, rotations |-> <<>>, translations |-> <<>>,
   joint_names |-> <<>>, num_joints |-> 0, returned_path |-> "",
   info |-> <<>>]

\* error_msg = f"MHRtoBVH failed: {str(e)}"
ErrorInfo(msg) == <<"MHRtoBVH failed: ", msg>>

ErrorResult(msg) ==
  [NoResult EXCEPT !.status = "error", !.error = msg, !.info = ErrorInfo(msg)]

NoKept ==
  [valid |-> FALSE, include_hands |-> FALSE, keypoints_3d |-> <<>>,
   scale |-> 0, file |-> <<>>, result |-> NoResult, between |-> {}]

\* what the caller keeps of a call that has returned: its arguments, its
\* result and the text of the file it wrote
KeptOfCall ==
  [valid |-> TRUE, include_hands |-> include_hands,
   keypoints_3d |-> mhr_params.keypoints_3d, scale |-> scale,
   file |-> IF file_written THEN file ELSE <<>>, result |-> result,
   between |-> {}]

SelectedJointNames == JointNamesFor(include_hands)

SelectedParents == ParentsFor(include_hands)

\* variant: the last frame of the input is not counted
NumFramesButLast == Len(mhr_params.keypoints_3d) - 1

NumFrames == Len(mhr_params.keypoints_3d)

TInit == t_parents = <<>> /\ t_order = <<>> /\ t_done = FALSE

RInit == r_keypoints = <<>> /\ r_rotation = <<>> /\ r_done = FALSE

XInit ==
  x_keypoints = <<>> /\ x_hands = FALSE /\ x_positions = <<>> /\ x_done = FALSE

CInit ==
  /\ pc = "idle"
  /\ output_path = [absolute |-> FALSE, name |-> "motion", suffix |-> ".bvh"]
  /\ mhr_params = [has_keypoints |-> FALSE, keypoints_3d |-> <<>>]
  /\ fps = 30
  /\ scale = 1
  /\ include_hands = TRUE
  /\ dir_created = FALSE
  /\ frame = 0
  /\ euler_rotations = <<>>
  /\ translations = <<>>
  /\ accumulated_rotations = <<>>
  /\ self_joint_names = <<>>
  /\ self_parent_indices = <<>>
  /\ joint_order = <<>>
  /\ lines = <<>>
  /\ file = <<>>
  /\ file_written = FALSE
  /\ result = NoResult
  /\ kept = NoKept

HInit == h_from = Zero3 /\ h_rotation = <<>> /\ h_done = FALSE

LInit ==
  /\ l_parent_rot = EyeMat
  /\ l_rest = Zero3
  /\ l_turn = EyeMat
  /\ l_local = <<>>
  /\ l_done = FALSE

JInit ==
  /\ j_pc = "idle"
  /\ j_keypoints_3d = <<>>
  /\ j_include_hands = FALSE
  /\ j_frame = 0
  /\ j_joint_idx = 0
  /\ j_accumulated = <<>>
  /\ j_locals = <<>>
  /\ j_euler_rotations = <<>>
  /\ j_defaulted = {}
  /\ j_raised = {}
  /\ j_raises_on = {}

\* the threads that call convert_to_bvh on the one instance: thread 1 with
\* include_hands=True, thread 2 with include_hands=False
Threads == {1, 2}

WInit ==
  /\ w_pc = [t \in Threads |-> "idle"]
  /\ w_stack = [t \in Threads |-> <<>>]
  /\ w_lines = [t \in Threads |-> <<>>]

EInit ==
  /\ e_pc = "idle"
  /\ e_mhr_params = [num_frames |-> 0, has_keypoints |-> FALSE, frames |-> 0]
  /\ e_character_path = ""
  /\ e_fps = 30
  /\ e_num_frames = 0
  /\ e_temp_dir = "none"
  /\ e_bvh_file = FALSE
  /\ e_retargeted = FALSE
  /\ e_result = <<>>

Init == CInit /\ TInit /\ RInit /\ XInit /\ HInit /\ LInit /\ JInit /\ WInit /\ EInit

(***************************************************************************)
(* convert_to_bvh                                                          *)
(***************************************************************************)
\* the caller invokes convert_to_bvh; the locals of the call start empty
Enter(params, f, s, h) ==
  /\ pc' = "begin"
  /\ mhr_params' = params
  /\ fps' = f
  /\ scale' = s
  /\ include_hands' = h
  /\ frame' = 0
  /\ euler_rotations' = <<>>
  /\ translations' = <<>>
  /\ accumulated_rotations' = <<>>
  /\ joint_order' = <<>>
  /\ lines' = <<>>
  /\ file_written' = FALSE
  /\ result' = NoResult
  /\ UNCHANGED << dir_created, self_joint_names, self_parent_indices, file >>

\* the first call on a new instance
Call ==
  /\ pc = "idle"
  /\ \E params \in MhrParams, f \in FpsValues, s \in ScaleValues, h \in BOOLEAN :
       Enter(params, f, s, h)
  /\ output_path' \in OutputPaths
  /\ kept' = NoKept
  /\ UNCHANGED << tvars, rvars, xvars, hvars, lvars, jvars, wvars, evars >>

\* the caller keeps the result and converts the same input with the other
\* setting of include_hands
CallToggled ==
  /\ pc = "returned"
  /\ Enter(mhr_params, fps, scale, ~include_hands)
  /\ kept' = KeptOfCall
  /\ UNCHANGED << output_path, tvars, rvars, xvars, hvars, lvars, jvars, wvars, evars >>

\* except Exception as e: return ({}, "", error_msg)
Raise(msg) ==
  /\ pc' = "returned"
  /\ result' = ErrorResult(msg)

\* lines 104-138: up to frame_time = 1.0 / fps
ConvertBegin ==
  /\ pc = "begin"
  /\ dir_created' = TRUE
  /\ IF output_path.suffix # ".bvh" /\ output_path.name = ""
     THEN Raise(EmptyName)
     ELSE IF ~mhr_params.has_keypoints
     THEN Raise("Missing keypoints_3d in MHR params")
     ELSE IF fps = 0
     THEN Raise("float division by zero")
     ELSE pc' = "solve" /\ UNCHANGED result
  /\ UNCHANGED << output_path, mhr_params, fps, scale, include_hands, frame,
                  euler_rotations, translations, accumulated_rotations, self_joint_names,
                  self_parent_indices, joint_order, lines, file,
                  file_written, kept, tvars, rvars, xvars, hvars, lvars,
                  jvars, wvars, evars >>

\* variant: every pass of the frame loop reads the keypoints of frame 0
FrameKeypointsOfFirst(keypoints_3d, f) == At(keypoints_3d, 0)

\* kp = keypoints_3d[frame]
FrameKeypoints(keypoints_3d, f) == At(keypoints_3d, f)

\* _compute_rotations: one pass of the frame loop
SolveFrame ==
  /\ pc = "solve"
  /\ frame < NumFrames
  /\ \E solved \in {Solved(FrameKeypoints(mhr_params.keypoints_3d, frame),
                             include_hands)} :
         /\ euler_rotations' = Append(euler_rotations, solved.euler)
         /\ translations' = Append(translations, solved.translation)
         /\ accumulated_rotations' = solved.accumulated
  /\ frame' = frame + 1
  /\ UNCHANGED << pc, output_path, mhr_params, fps, scale, include_hands, dir_created,
                  self_joint_names, self_parent_indices, joint_order, lines,
                  file, file_written, result, kept, tvars, rvars, xvars, hvars, lvars,
                  jvars, wvars, evars >>

\* an attribute of the instance that keeps the longer of the two tables
SetAttrKeepLongest(current, value) == IF Len(current) > Len(value) THEN current ELSE value

\* self._joint_names = joint_names, self._parent_indices = parent_indices:
\* the assignment replaces whatever an earlier call left in the attribute
SetAttr(current, value) == value

\* _compute_rotations returns; np.min / np.max of the rotations (lines
\* 146-152) raise on an empty array; then _write_bvh up to joint_order
WriteBvhBegin ==
  /\ pc = "solve"
  /\ frame = NumFrames
  /\ IF NumFrames = 0
     THEN /\ Raise("zero-size array to reduction operation minimum which has no identity")
          /\ UNCHANGED << self_joint_names, self_parent_indices, joint_order >>
     ELSE /\ self_joint_names' = SetAttr(self_joint_names, SelectedJointNames)
          /\ self_parent_indices' = SetAttr(self_parent_indices, SelectedParents)
          /\ joint_order' = get_bvh_joint_order(SelectedParents)
          /\ pc' = "hierarchy"
          /\ UNCHANGED result
  /\ UNCHANGED << output_path, mhr_params, fps, scale, include_hands, dir_created, frame,
                  euler_rotations, translations, accumulated_rotations, lines, file, file_written,
                  kept, tvars, rvars, xvars, hvars, lvars, jvars, wvars,
                  evars >>

\* _write_bvh lines 424-430: the HIERARCHY block and the MOTION header
WriteHierarchy ==
  /\ pc = "hierarchy"
  /\ lines' = << Line("HIERARCHY", 0, "", 0, <<>>) >>
              \o write_joint(self_joint_names, self_parent_indices, 0, 0, scale)
              \o << Line("MOTION", 0, "", 0, <<>>),
                    Line("Frames:", 0, "", Len(euler_rotations), <<>>),
                    Line("Frame Time:", 0, "", 0, <<1, fps>>) >>
  /\ frame' = 0
  /\ pc' = "motion"
  /\ UNCHANGED << output_path, mhr_params, fps, scale, include_hands, dir_created,
                  euler_rotations, translations, accumulated_rotations, self_joint_names,
                  self_parent_indices, joint_order, file, file_written,
                  result, kept, tvars, rvars, xvars, hvars, lvars, jvars,
                  wvars, evars >>

\* _write_bvh lines 433-448: one pass of the frame loop
WriteMotionLine ==
  /\ pc = "motion"
  /\ frame < Len(euler_rotations)
  /\ lines' = Append(lines,
                Line("data", 0, "", 0,
                     FrameData(joint_order, At(euler_rotations, frame),
                               At(translations, frame), scale)))
  /\ frame' = frame + 1
  /\ UNCHANGED << pc, output_path, mhr_params, fps, scale, include_hands, dir_created,
                  euler_rotations, translations, accumulated_rotations, self_joint_names,
                  self_parent_indices, joint_order, file, file_written,
                  result, kept, tvars, rvars, xvars, hvars, lvars, jvars,
                  wvars, evars >>

\* _write_bvh returns; lines 164-193: the file is written and the result
\* returned
SaveAndReturn ==
  /\ pc = "motion"
  /\ frame = Len(euler_rotations)
  /\ file' = lines
  /\ file_written' = TRUE
  /\ result' = [status |-> "ok", error |-> "",
                file_path |-> Absolute(EnsureBvhSuffix(output_path)),
                num_frames |-> NumFrames, fps |-> fps, scale |-> scale,
                rotations |-> euler_rotations, translations |-> translations,
                joint_names |-> SelectedJointNames,
                num_joints |-> Len(SelectedJointNames),
                returned_path |-> Absolute(EnsureBvhSuffix(output_path)),
                info |-> <<"MHRtoBVH Complete", EnsureBvhSuffix(output_path),
                           NumFrames, fps, scale, Len(SelectedJointNames),
                           include_hands>>]
  /\ pc' = "returned"
  /\ UNCHANGED << output_path, mhr_params, fps, scale, include_hands, dir_created, frame,
                  euler_rotations, translations, accumulated_rotations, self_joint_names,
                  self_parent_indices, joint_order, lines, kept, tvars, rvars, xvars, hvars, lvars,
                  jvars, wvars, evars >>

\* lines 164-166 fail: open() raises (the file is as it was) or f.write()
\* raises after open() has truncated the file; the except clause returns
\* ({}, "", error_msg)
WriteFailed == "[Errno 28] No space left on device"

SaveFails ==
  /\ pc = "motion"
  /\ frame = Len(euler_rotations)
  /\ file' \in {file, <<>>}
  /\ Raise(WriteFailed)
  /\ UNCHANGED << output_path, mhr_params, fps, scale, include_hands, dir_created, frame,
                  euler_rotations, translations, accumulated_rotations, self_joint_names,
                  self_parent_indices, joint_order, lines, file_written,
                  kept, tvars, rvars, xvars, hvars, lvars, jvars, wvars,
                  evars >>

Next ==
  \/ Call
  \/ CallToggled
  \/ ConvertBegin
  \/ SolveFrame
  \/ WriteBvhBegin
  \/ WriteHierarchy
  \/ WriteMotionLine
  \/ SaveAndReturn
  \/ SaveFails

Spec == Init /\ [][Next]_vars

(***************************************************************************)
(* Properties of the BVH text (checked under Spec)                         *)
(***************************************************************************)
IsJointHeader(l) == l.t \in {"ROOT", "JOINT"}

IsData(l) == l.t = "data"

IsEndSite(l) == l.t = "End Site"

IsChannels(l) == l.t = "CHANNELS"

RECURSIVE SumOfCounts(_)
SumOfCounts(ls) == IF ls = <<>> THEN 0 ELSE Head(ls).n + SumOfCounts(Tail(ls))

\* the sum of the channel counts the HIERARCHY block declares
DeclaredChannels(ls) == SumOfCounts(SelectSeq(ls, IsChannels))

IndexOfName(joint_names, name) ==
  CHOOSE j \in 0..(Len(joint_names) - 1) : At(joint_names, j) = name

\* the rotation values of the i-th channel group of a motion line
RotationGroup(vals, i) ==
  IF i = 1 THEN SubSeq(vals, 4, 6) ELSE SubSeq(vals, 3 * i + 1, 3 * i + 3)

\* C1: every motion line holds 6 + 3 x (joint_count - 1) values, which is
\* the sum of the channel counts declared in the HIERARCHY block, for both
\* topologies and any number of frames.
C1_MotionLineWidth ==
  \A i \in 1..Len(lines) :
    IsData(lines[i]) =>
      /\ Len(lines[i].vals) = 6 + 3 * (NumJoints(include_hands) - 1)
      /\ Len(lines[i].vals) = DeclaredChannels(lines)

\* both topologies have been written for the same two frames, each file
\* with its two motion lines
C1_Witness ==
  /\ pc = "returned"
  /\ kept.valid /\ kept.result.status = "ok" /\ result.status = "ok"
  /\ Len(SelectSeq(lines, IsData)) = 2
  /\ Len(SelectSeq(file, IsData)) = 2

\* C2: the ROOT/JOINT blocks of the HIERARCHY block are opened in the order
\* get_bvh_joint_order returns, which is the order _write_bvh lays a motion
\* line out in: the i-th channel group of every motion line holds the
\* rotation of the i-th declared joint.
C2_HierarchyOrderIsMotionOrder ==
  lines # <<>> =>
    LET declared == SelectSeq(lines, IsJointHeader)
        order    == get_bvh_joint_order(SelectedParents)
        data     == SelectSeq(lines, IsData)
    IN  /\ joint_order = order
        /\ Len(declared) = Len(order)
        /\ \A i \in 1..Len(declared) :
             declared[i].name = At(SelectedJointNames, order[i])
        /\ \A k \in 1..Len(data) : \A i \in 1..Len(declared) :
             RotationGroup(data[k].vals, i)
               = At(At(euler_rotations, k - 1),
                    IndexOfName(SelectedJointNames, declared[i].name))

\* a body+hands file with the motion line of the bent-arm frame, where the
\* rotation of the left elbow differs from its neighbours'
C2_Witness ==
  /\ pc = "returned" /\ result.status = "ok" /\ include_hands
  /\ mhr_params.keypoints_3d = <<1, 3>>
  /\ Len(SelectSeq(file, IsData)) = 2
  /\ Len(SelectSeq(file, IsJointHeader)) = 52

\* C6: in the HIERARCHY block a joint without children holds, right after
\* its CHANNELS line, exactly one End Site block with a zero offset and then
\* closes; no joint with children holds an End Site block.
C6_EndSiteExactlyAtLeaves ==
  lines # <<>> =>
    /\ \A i \in 1..Len(lines) :
         IsJointHeader(lines[i]) =>
           LET j    == IndexOfName(SelectedJointNames, lines[i].name)
               leaf == Children(SelectedParents, j) = <<>>
           IN  /\ leaf <=> IsEndSite(lines[i + 4])
               /\ leaf =>
                    /\ lines[i + 5].t = "{"
                    /\ lines[i + 6].t = "OFFSET"
                    /\ lines[i + 6].vals = <<0, 0, 0>>
                    /\ lines[i + 7].t = "}"
                    /\ lines[i + 7].ind = lines[i + 5].ind
                    /\ lines[i + 8].t = "}"
                    /\ lines[i + 8].ind = lines[i].ind
    /\ Len(SelectSeq(lines, IsEndSite))
         = Cardinality({j \in 0..(NumJoints(include_hands) - 1) :
                          Children(SelectedParents, j) = <<>>})

\* a body-only hierarchy, where the wrists are leaves, after a body+hands
\* one, where they are not
C6_Witness ==
  /\ pc = "motion" /\ ~include_hands /\ kept.valid
  /\ kept.result.status = "ok"
  /\ Len(SelectSeq(lines, IsEndSite)) = 5
  /\ Len(SelectSeq(file, IsEndSite)) = 13

\* C7: the HIERARCHY block has exactly one ROOT block, the first block, for
\* the topology's root joint, declaring the 6 channels Xposition Yposition
\* Zposition Zrotation Xrotation Yrotation; every other joint is a JOINT
\* block declaring the 3 channels Zrotation Xrotation Yrotation.
C7_OneRootSixChannels ==
  lines # <<>> =>
    LET declared == SelectSeq(lines, IsJointHeader)
    IN  /\ lines[2].t = "ROOT"
        /\ \E r \in 0..(NumJoints(include_hands) - 1) :
             At(SelectedParents, r) = -1
             /\ lines[2].name = At(SelectedJointNames, r)
        /\ \A i \in 3..Len(lines) : lines[i].t # "ROOT"
        /\ {declared[i].name : i \in 2..Len(declared)}
             = {At(SelectedJointNames, j) : j \in 1..(NumJoints(include_hands) - 1)}
        /\ Len(declared) = NumJoints(include_hands)
        /\ \A i \in 1..Len(lines) :
             IsJointHeader(lines[i]) =>
               /\ IsChannels(lines[i + 3])
               /\ lines[i + 3].n = (IF lines[i].t = "ROOT" THEN 6 ELSE 3)
               /\ lines[i + 3].vals
                    = (IF lines[i].t = "ROOT"
                       THEN <<"Xposition", "Yposition", "Zposition",
                              "Zrotation", "Xrotation", "Yrotation">>
                       ELSE <<"Zrotation", "Xrotation", "Yrotation">>)
               /\ Len(lines[i + 3].vals) = lines[i + 3].n

\* a written body+hands hierarchy: one ROOT and 51 JOINT blocks
C7_Witness ==
  /\ pc = "motion" /\ include_hands
  /\ Len(SelectSeq(lines, IsJointHeader)) = 52
  /\ Len(SelectSeq(lines, IsChannels)) = 52

(***************************************************************************)
(* Properties of convert_to_bvh and _compute_rotations (checked under      *)
(* Spec)                                                                   *)
(***************************************************************************)
\* the frames in which every landmark sits at its accumulated rest offset,
\* scaled by a positive factor
TPoseFrameIds ==
  {f \in 1..Len(Frames) : \E k \in 1..2 : Frames[f] = TPoseFrame(k)}

\* C4: in a frame whose joints sit at the accumulated rest offsets, scaled
\* by a positive factor, every non-root joint gets the Euler triple (0,0,0).
C4_TPoseGivesZeroRotations ==
  \A f \in 1..Len(euler_rotations) :
    mhr_params.keypoints_3d[f] \in TPoseFrameIds =>
      \A j \in 1..(Len(euler_rotations[f]) - 1) :
        At(euler_rotations[f], j) = <<<<"deg", 0, 1>>, <<"deg", 0, 1>>, <<"deg", 0, 1>>>>

\* the results of the two conversions of the same keypoint sequence
BothConverted ==
  /\ pc = "returned"
  /\ kept.valid /\ kept.result.status = "ok" /\ result.status = "ok"

BodyResult == IF include_hands THEN kept.result ELSE result

HandsResult == IF include_hands THEN result ELSE kept.result

\* C8 as stated: converting the same keypoint sequence with and without
\* hands gives the same Euler rotation for every joint 0..21 in every frame;
\* the body-only array is a prefix of the body+hands array.
C8_BodyRotationsArePrefix ==
  BothConverted =>
    /\ Len(BodyResult.rotations) = Len(HandsResult.rotations)
    /\ \A f \in 1..Len(BodyResult.rotations) :
         /\ Len(BodyResult.rotations[f]) = 22
         /\ Len(HandsResult.rotations[f]) = 52
         /\ \A j \in 0..21 :
              At(BodyResult.rotations[f], j) = At(HandsResult.rotations[f], j)

\* C8 (amended): converting the same keypoint sequence with and without
\* hands gives the same Euler rotation for every joint 0..19 in every frame;
\* the body-only array has 22 entries per frame, the body+hands array 52.
\* The wrists (20, 21) are leaves of the body-only topology only and may
\* differ.
C8_BodyRotationsAgreeUpToWrists ==
  BothConverted =>
    /\ Len(BodyResult.rotations) = Len(HandsResult.rotations)
    /\ \A f \in 1..Len(BodyResult.rotations) :
         /\ Len(BodyResult.rotations[f]) = 22
         /\ Len(HandsResult.rotations[f]) = 52
         /\ \A j \in 0..19 :
              At(BodyResult.rotations[f], j) = At(HandsResult.rotations[f], j)

\* both conversions of a two-frame sequence with the bent arm are done and
\* a wrist rotation differs between them
C8_Witness ==
  /\ BothConverted
  /\ mhr_params.keypoints_3d = <<3, 1>>
  /\ \E f \in 1..2 : \E j \in 20..21 :
       At(BodyResult.rotations[f], j) # At(HandsResult.rotations[f], j)
  /\ At(BodyResult.rotations[1], 18) # At(BodyResult.rotations[2], 18)

\* C10: a call with fps <= 0 or scale <= 0 returns an error result and does
\* no processing: no rotation is solved, no file written.
C10_NonPositiveFpsOrScaleRejected ==
  (pc = "returned" /\ (fps <= 0 \/ scale <= 0)) =>
    /\ result.status = "error"
    /\ euler_rotations = <<>>
    /\ ~file_written

\* C11: a call with zero frames, or without a keypoints_3d entry, returns an
\* error result before processing begins: the output directory is not
\* created, no rotation is solved, no BVH file written.
C11_EmptyInputRejectedFirst ==
  (pc = "returned" /\ ~kept.valid
     /\ (~mhr_params.has_keypoints \/ Len(mhr_params.keypoints_3d) = 0)) =>
    /\ result.status = "error"
    /\ ~dir_created
    /\ euler_rotations = <<>>
    /\ ~file_written

\* C12: when writing the output file fails, the failure is returned to the
\* caller and the solved rotations and translations stay available in what
\* the caller gets.
C12_SolvedAnimationSurvivesWriteFailure ==
  (pc = "returned" /\ result.error = WriteFailed) =>
    /\ result.status = "error"
    /\ euler_rotations # <<>>
    /\ result.rotations = euler_rotations
    /\ result.translations = translations

\* the call has returned the animation and written its file
FileWritten == pc = "returned" /\ result.status = "ok"

FramesLines == {i \in 1..Len(file) : file[i].t = "Frames:"}

\* the motion line vals holds the pose solved from the frame kp_frame
HoldsPoseOf(vals, kp_frame) ==
  \E pose \in {Solved(kp_frame, include_hands)} :
      /\ SubSeq(vals, 1, 3) = << <<"num", pose.translation[1] * scale, 8>>,
                                 <<"num", pose.translation[2] * scale, 8>>,
                                 <<"num", pose.translation[3] * scale, 8>> >>
      /\ \A p \in 1..Len(joint_order) :
           RotationGroup(vals, p) = At(pose.euler, joint_order[p])

\* C19: the text written for F input frames has one line 'Frames: F', next
\* the 'Frame Time' line, and then exactly F motion lines, which end the
\* text; the k-th of them holds the pose solved from the k-th input frame.
C19_OneMotionLinePerFrameInOrder ==
  FileWritten =>
    /\ Cardinality(FramesLines) = 1
    /\ \A i \in FramesLines :
         /\ file[i].n = Len(mhr_params.keypoints_3d)
         /\ file[i + 1].t = "Frame Time:"
         /\ Len(file) = i + 1 + Len(mhr_params.keypoints_3d)
         /\ \A k \in 1..Len(mhr_params.keypoints_3d) :
              /\ IsData(file[i + 1 + k])
              /\ HoldsPoseOf(file[i + 1 + k].vals, mhr_params.keypoints_3d[k])
    /\ Len(SelectSeq(file, IsData)) = Len(mhr_params.keypoints_3d)

\* the bent frame, then the T-pose: two motion lines that differ, in the
\* order of the input
C19_Witness ==
  /\ FileWritten
  /\ mhr_params.keypoints_3d = <<3, 1>>
  /\ Len(SelectSeq(file, IsData)) = 2
  /\ HoldsPoseOf(file[Len(file)].vals, 1)
  /\ ~HoldsPoseOf(file[Len(file) - 1].vals, 1)

(***************************************************************************)
(* get_bvh_joint_order called on its own with any parent list of at most   *)
(* MaxJoints entries, each -1, a joint index, or an index past the end     *)
(***************************************************************************)
RECURSIVE SeqsOfLen(_, _)
SeqsOfLen(S, n) ==
  IF n = 0 THEN {<<>>}
  ELSE {Append(s, x) : s \in SeqsOfLen(S, n - 1), x \in S}

ParentLists ==
  UNION {SeqsOfLen(-1..MaxJoints, n) : n \in 1..MaxJoints}

InitOrder ==
  /\ CInit
  /\ EInit
  /\ WInit
  /\ JInit
  /\ RInit
  /\ XInit
  /\ HInit
  /\ LInit
  /\ t_parents \in ParentLists
  /\ t_order = <<>>
  /\ t_done = FALSE

OrderCall ==
  /\ ~t_done
  /\ t_order' = get_bvh_joint_order(t_parents)
  /\ t_done' = TRUE
  /\ UNCHANGED << t_parents, cvars, rvars, xvars, hvars, lvars, jvars, wvars, evars >>

NextOrder == OrderCall

SpecOrder == InitOrder /\ [][NextOrder]_vars

(***************************************************************************)
(* _compute_root_rotation called on its own: the hips and shoulders on a   *)
(* small grid, every other keypoint at the origin                          *)
(***************************************************************************)
GridPoints == {<<x, y, z>> : x \in 0..MaxCoord, y \in 0..MaxCoord, z \in 0..MaxCoord}

RootFrame(left_hip, right_hip, left_shoulder, right_shoulder) ==
  ToList([m \in 1..NumKeypoints |->
     IF m - 1 = LEFT_HIP THEN left_hip
     ELSE IF m - 1 = RIGHT_HIP THEN right_hip
     ELSE IF m - 1 = LEFT_SHOULDER THEN left_shoulder
     ELSE IF m - 1 = RIGHT_SHOULDER THEN right_shoulder
     ELSE Zero3])

InitRoot ==
  /\ CInit
  /\ EInit
  /\ WInit
  /\ JInit
  /\ TInit
  /\ XInit
  /\ HInit
  /\ LInit
  /\ r_keypoints \in {RootFrame(lh, rh, ls, rs) :
                         lh \in GridPoints, rh \in GridPoints,
                         ls \in GridPoints, rs \in GridPoints}
  /\ r_rotation = <<>>
  /\ r_done = FALSE

RootCall ==
  /\ ~r_done
  /\ r_rotation' = compute_root_rotation(r_keypoints)
  /\ r_done' = TRUE
  /\ UNCHANGED << r_keypoints, cvars, tvars, xvars, hvars, lvars, jvars, wvars, evars >>

NextRoot == RootCall

SpecRoot == InitRoot /\ [][NextRoot]_vars

(***************************************************************************)
(* convert_to_bvh on the special two-frame inputs: the T-pose followed by  *)
(* the frame with the moved elbow, and the T-pose with the zero-length     *)
(* bone in either order                                                    *)
(***************************************************************************)
PoseSequences == {<<4, 5>>, <<6, 1>>, <<1, 6>>}

CallPose ==
  /\ pc = "idle"
  /\ \E k \in PoseSequences, s \in ScaleValues, h \in BOOLEAN :
       Enter([has_keypoints |-> TRUE, keypoints_3d |-> k], 30, s, h)
  /\ kept' = NoKept
  /\ UNCHANGED << output_path, tvars, rvars, xvars, hvars, lvars, jvars, wvars, evars >>

NextPose ==
  \/ CallPose
  \/ CallToggled
  \/ ConvertBegin
  \/ SolveFrame
  \/ WriteBvhBegin
  \/ WriteHierarchy
  \/ WriteMotionLine
  \/ SaveAndReturn
  \/ SaveFails

SpecPose == Init /\ [][NextPose]_vars

\* the values of the i-th channel group of a motion line (the root's group
\* holds its translation too)
ChannelGroup(vals, i) ==
  IF i = 1 THEN SubSeq(vals, 1, 6) ELSE SubSeq(vals, 3 * i + 1, 3 * i + 3)

\* the joints whose channel groups differ between the two motion lines
DifferingJoints ==
  LET data == SelectSeq(lines, IsData)
  IN  {joint_order[i] : i \in {k \in 1..Len(joint_order) :
         ChannelGroup(data[1].vals, k) # ChannelGroup(data[2].vals, k)}}

\* both motion lines of the input "T-pose, then the same with the left
\* elbow landmark turned about the shoulder" are written
ElbowLinesWritten ==
  /\ mhr_params.keypoints_3d = <<4, 5>>
  /\ Len(SelectSeq(lines, IsData)) = 2

LeftHandChain == IF include_hands THEN {20} \cup (22..36) ELSE {}

ZeroBoneJoint == 16

ZeroBoneSolved ==
  /\ pc = "solve"
  /\ frame > 0
  /\ AllFrames[At(mhr_params.keypoints_3d, frame - 1)] = ZeroBoneFrame

Directions ==
  {<<x, y, z>> : x \in -MaxDir..MaxDir, y \in -MaxDir..MaxDir,
                 z \in -MaxDir..MaxDir} \ {Zero3}

InitHalfTurn ==
  /\ CInit
  /\ EInit
  /\ WInit
  /\ JInit
  /\ TInit
  /\ RInit
  /\ XInit
  /\ LInit
  /\ h_from \in Directions
  /\ h_rotation = <<>>
  /\ h_done = FALSE

HalfTurnCall ==
  /\ ~h_done
  /\ h_rotation' = rotation_matrix_from_vectors(h_from, VScale(-1, h_from))
  /\ h_done' = TRUE
  /\ UNCHANGED << h_from, cvars, tvars, rvars, xvars, lvars, jvars, wvars, evars >>

NextHalfTurn == HalfTurnCall

SpecHalfTurn == InitHalfTurn /\ [][NextHalfTurn]_vars

Det3(n) ==
  n[1][1] * (n[2][2] * n[3][3] - n[2][3] * n[3][2])
  - n[1][2] * (n[2][1] * n[3][3] - n[2][3] * n[3][1])
  + n[1][3] * (n[2][1] * n[3][2] - n[2][2] * n[3][1])

\* M is a finite proper rotation: M M^T = I and det M = +1
IsProperRotation(M) ==
  /\ IsFinite(M)
  /\ MatMul(M, MatT(M)) = EyeMat
  /\ Det3(M.n) = M.d * M.d * M.d

\* the axis the half-turn is to be taken about: cross(v, X) when
\* |v.x| < 0.9 |v|, else cross(v, Y)
ExpectedAxis(v) ==
  Cross(v, IF 100 * v[1] * v[1] < 81 * Dot(v, v) THEN <<1, 0, 0>>
           ELSE <<0, 1, 0>>)

\* C16: rotation_matrix_from_vectors(v, -v) is a finite proper rotation D
\* with D v = -v; its axis cross(v, X) (|v.x| < 0.9) or cross(v, Y) is never
\* zero and is left fixed by D.
C16_OppositeVectorsGiveHalfTurn ==
  h_done =>
    /\ IsProperRotation(h_rotation)
    /\ MatVecDir(h_rotation, h_from) = VScale(-h_rotation.d, h_from)
    /\ ExpectedAxis(h_from) # Zero3
    /\ MatVecDir(h_rotation, ExpectedAxis(h_from))
         = VScale(h_rotation.d, ExpectedAxis(h_from))

\* a direction with |v.x| >= 0.9 |v|: the axis comes from Y and the result
\* is the half-turn about Z
C16_Witness ==
  /\ h_done
  /\ h_from = <<3, 1, 0>>
  /\ ExpectedAxis(h_from) = <<0, 0, 3>>
  /\ h_rotation = [n |-> <<<<-1, 0, 0>>, <<0, -1, 0>>, <<0, 0, 1>>>>, d |-> 1]

(***************************************************************************)
(* The joint loop body on a two-joint chain: a parent (joint 0) with a     *)
(* given global rotation, the joint (1) and its only child (2).  The child *)
(* is placed where the parent rotation and a turn of the joint carry the   *)
(* rest direction: child - joint = parent_rot @ turn @ rest_dir.           *)
(***************************************************************************)
\* the rotation about the coordinate axis a by the angle with cosine c / 5
\* and sine sn / 5
AxisAngle(a, c, sn) ==
  LET Entry(i, j) == (IF i = j THEN c ELSE 0) + sn * Skew(a)[i][j]
                     + (5 - c) * a[i] * a[j]
  IN  MkMat(Mat3(Entry), 5)

\* (cosine, sine) in fifths: 36.87, 53.13, 90, 126.87 and 143.13 degrees,
\* either way round
TurnAngles ==
  {<<4, 3>>, <<3, 4>>, <<0, 5>>, <<-3, 4>>, <<-4, 3>>,
   <<4, -3>>, <<3, -4>>, <<0, -5>>, <<-3, -4>>, <<-4, -3>>}

CoordinateAxes == {<<1, 0, 0>>, <<0, 1, 0>>, <<0, 0, 1>>}

\* orthonormal parent rotations: Rz Rx with each factor the identity or a
\* turn by one of the angles
ParentRotations ==
  LET about(a) == {EyeMat} \cup {AxisAngle(a, t[1], t[2]) : t \in TurnAngles}
  IN  {MatMul(A, B) : A \in about(<<0, 0, 1>>), B \in about(<<1, 0, 0>>)}

ChainParents == <<-1, 0, 1>>

ChainJoint == 1

ChainJointPosition == <<10, 20, 30>>

InitChain ==
  /\ CInit
  /\ EInit
  /\ WInit
  /\ JInit
  /\ TInit
  /\ RInit
  /\ XInit
  /\ HInit
  /\ l_parent_rot \in ParentRotations
  /\ l_rest \in CoordinateAxes
  /\ \E a \in CoordinateAxes, t \in TurnAngles :
       /\ Dot(a, l_rest) = 0
       /\ l_turn = AxisAngle(a, t[1], t[2])
  /\ l_local = <<>>
  /\ l_done = FALSE

ChainCall ==
  /\ ~l_done
  /\ LET current_dir == MatVecDir(l_parent_rot, MatVecDir(l_turn, l_rest))
         bvh_positions == << Zero3, ChainJointPosition,
                             VAdd(ChainJointPosition, current_dir) >>
         rest_directions == << l_rest, l_rest, l_rest >>
         accumulated == << l_parent_rot >>
         global_rot == joint_global_rotation(<<>>, ChainParents, bvh_positions,
                         rest_directions, accumulated, ChainJoint)
     IN  l_local' = joint_local_rotation(ChainParents, accumulated, ChainJoint,
                                         global_rot)
  /\ l_done' = TRUE
  /\ UNCHANGED << l_parent_rot, l_rest, l_turn, cvars, tvars, rvars, xvars, hvars, jvars,
                  wvars, evars >>

NextChain == ChainCall

SpecChain == InitChain /\ [][NextChain]_vars

\* C17: on a two-joint chain whose child is displaced from the rest
\* direction by a rotation R of less than 180 degrees about an axis
\* perpendicular to the rest direction, the local rotation computed for the
\* joint is R, for every orthonormal global rotation of the parent.
C17_BendIsRecovered ==
  l_done => IsProperRotation(l_parent_rot) /\ l_local = l_turn

C17_Witness ==
  /\ l_done
  /\ l_rest = <<0, 1, 0>>
  /\ l_turn = AxisAngle(<<0, 0, 1>>, 3, 4)
  /\ l_parent_rot = MatMul(AxisAngle(<<0, 0, 1>>, 4, 3), AxisAngle(<<1, 0, 0>>, -3, 4))
  /\ l_local = [n |-> <<<<3, -4, 0>>, <<4, 3, 0>>, <<0, 0, 5>>>>, d |-> 5]

(***************************************************************************)
(* convert_to_bvh called again with another sequence of frames (the same   *)
(* fps, scale and include_hands), the caller keeping the result of the     *)
(* call before                                                             *)
(***************************************************************************)
CallFrames ==
  /\ pc = "idle"
  /\ \E k \in KeypointSequences, h \in BOOLEAN :
       Enter([has_keypoints |-> TRUE, keypoints_3d |-> k], 30, 1, h)
  /\ kept' = NoKept
  /\ UNCHANGED << output_path, tvars, rvars, xvars, hvars, lvars, jvars, wvars, evars >>

CallOtherFrames ==
  /\ pc = "returned"
  /\ ~kept.valid
  /\ \E k \in KeypointSequences :
       Enter([has_keypoints |-> TRUE, keypoints_3d |-> k], fps, scale,
             include_hands)
  /\ kept' = KeptOfCall
  /\ UNCHANGED << output_path, tvars, rvars, xvars, hvars, lvars, jvars, wvars, evars >>

NextFrames ==
  \/ CallFrames
  \/ CallOtherFrames
  \/ ConvertBegin
  \/ SolveFrame
  \/ WriteBvhBegin
  \/ WriteHierarchy
  \/ WriteMotionLine
  \/ SaveAndReturn
  \/ SaveFails

SpecFrames == Init /\ [][NextFrames]_vars

\* both calls have returned an animation
BothSolved ==
  /\ pc = "returned"
  /\ kept.valid
  /\ kept.result.status = "ok"
  /\ result.status = "ok"

\* C18: the pose of a frame (root translation and every joint's Euler
\* triple) depends on the keypoints of that frame only: a frame that is in
\* both sequences, at whatever positions and among whatever other frames,
\* has the same pose in both results.
C18_PoseDependsOnOwnFrameOnly ==
  BothSolved =>
    \A i \in 1..Len(kept.keypoints_3d), j \in 1..Len(mhr_params.keypoints_3d) :
      kept.keypoints_3d[i] = mhr_params.keypoints_3d[j] =>
        /\ kept.result.rotations[i] = result.rotations[j]
        /\ kept.result.translations[i] = result.translations[j]

\* the bent frame, second of two frames in the first call, is the only
\* frame of the second call
C18_Witness ==
  /\ BothSolved
  /\ kept.keypoints_3d = <<1, 3>>
  /\ mhr_params.keypoints_3d = <<3>>
  /\ result.rotations[1] = kept.result.rotations[2]
  /\ result.rotations[1] # kept.result.rotations[1]

(***************************************************************************)
(* convert_to_bvh called again on the same input with another scale, the   *)
(* caller keeping the result and the text of the call before               *)
(***************************************************************************)
\* sequences with the shifted T-pose (frame 7), whose root translation is
\* not zero
ScaleSequences == {<<7>>, <<7, 3>>, <<3, 7>>, <<1, 7>>}

CallScale ==
  /\ pc = "idle"
  /\ \E k \in ScaleSequences, s \in ScaleValues, h \in BOOLEAN :
       Enter([has_keypoints |-> TRUE, keypoints_3d |-> k], 30, s, h)
  /\ kept' = NoKept
  /\ UNCHANGED << output_path, tvars, rvars, xvars, hvars, lvars, jvars, wvars, evars >>

CallRescaled ==
  /\ pc = "returned"
  /\ ~kept.valid
  /\ \E s \in ScaleValues : Enter(mhr_params, fps, s, include_hands)
  /\ kept' = KeptOfCall
  /\ UNCHANGED << output_path, tvars, rvars, xvars, hvars, lvars, jvars, wvars, evars >>

NextScale ==
  \/ CallScale
  \/ CallRescaled
  \/ ConvertBegin
  \/ SolveFrame
  \/ WriteBvhBegin
  \/ WriteHierarchy
  \/ WriteMotionLine
  \/ SaveAndReturn
  \/ SaveFails

SpecScale == Init /\ [][NextScale]_vars

\* both calls have written their text
BothWritten ==
  /\ FileWritten
  /\ kept.valid
  /\ kept.result.status = "ok"

\* line i of a text is the OFFSET line of a ROOT or JOINT block
IsJointOffset(text, i) ==
  text[i].t = "OFFSET" /\ i > 2 /\ IsJointHeader(text[i - 2])

\* the three values v hold s times the vector a (in eighths)
IsScaled(v, s, a) ==
  v = << <<"num", a[1] * s, 8>>, <<"num", a[2] * s, 8>>, <<"num", a[3] * s, 8>> >>

\* the k-th motion line of a text
MotionLine(text, k) == SelectSeq(text, IsData)[k]

\* C20: in the text of a call the OFFSET of every ROOT/JOINT block is scale
\* times the rest offset of its joint and the first three values of the
\* k-th motion line are scale times the root translation of frame k; the
\* texts of two calls that differ in scale only agree in every other line
\* and value: the rotation channels, the End Site offsets, the frame count
\* and the frame time.
C20_ScaleOnlyOffsetsAndRootTranslation ==
  BothWritten =>
    /\ Len(file) = Len(kept.file)
    /\ \A i \in 1..Len(file) :
         IF IsJointOffset(file, i)
         THEN /\ IsJointOffset(kept.file, i)
              /\ file[i - 2].name = kept.file[i - 2].name
              /\ file[i].vals = VScale(scale,
                     OffsetsGet(IndexOfName(self_joint_names, file[i - 2].name), Zero3))
              /\ kept.file[i].vals = VScale(kept.scale,
                     OffsetsGet(IndexOfName(self_joint_names, file[i - 2].name), Zero3))
         ELSE IF IsData(file[i])
         THEN /\ IsData(kept.file[i])
              /\ SubSeq(file[i].vals, 4, Len(file[i].vals))
                   = SubSeq(kept.file[i].vals, 4, Len(kept.file[i].vals))
         ELSE file[i] = kept.file[i]
    /\ \A k \in 1..Len(result.translations) :
         /\ IsScaled(SubSeq(MotionLine(file, k).vals, 1, 3), scale,
                     result.translations[k])
         /\ IsScaled(SubSeq(MotionLine(kept.file, k).vals, 1, 3), kept.scale,
                     result.translations[k])

\* the same two frames written with scale 1 and then with scale 2: the root
\* translations and the joint offsets differ, the End Site offsets are zero
C20_Witness ==
  /\ BothWritten
  /\ kept.scale = 1
  /\ scale = 2
  /\ mhr_params.keypoints_3d = <<3, 7>>
  /\ SubSeq(MotionLine(file, 2).vals, 1, 3) # SubSeq(MotionLine(kept.file, 2).vals, 1, 3)
  /\ \E i \in 1..Len(file) : IsJointOffset(file, i) /\ file[i].vals # kept.file[i].vals
  /\ \E i \in 1..Len(file) : IsEndSite(file[i]) /\ file[i + 2].vals = Zero3

(***************************************************************************)
(* extract_bvh_positions_from_mhr called on its own: a keypoint array of   *)
(* at most 70 entries (the first entries of a frame of the model)          *)
(***************************************************************************)
KeypointArrays ==
  {SubSeq(Frames[f], 1, n) : f \in 1..Len(Frames), n \in 0..NumKeypoints}

InitExtract ==
  /\ CInit
  /\ EInit
  /\ WInit
  /\ JInit
  /\ TInit
  /\ RInit
  /\ HInit
  /\ LInit
  /\ x_keypoints \in KeypointArrays
  /\ x_hands \in BOOLEAN
  /\ x_positions = <<>>
  /\ x_done = FALSE

ExtractCall ==
  /\ ~x_done
  /\ x_positions' = extract_bvh_positions_from_mhr(x_keypoints, x_hands)
  /\ x_done' = TRUE
  /\ UNCHANGED << x_keypoints, x_hands, cvars, tvars, rvars, hvars, lvars, jvars, wvars,
                  evars >>

NextExtract == ExtractCall

SpecExtract == InitExtract /\ [][NextExtract]_vars

\* C13: on a keypoint array with fewer than 70 entries
\* extract_bvh_positions_from_mhr does not fail: a joint whose landmark index
\* is not an index of the array (the hips and the neck for the pelvis and
\* spine joints) is at the zero vector, every other joint is filled normally.
C13_ShortArrayGivesZeroVectors ==
  x_done =>
    /\ x_positions # IndexError
    /\ Len(x_positions) = NumJoints(x_hands)
    /\ \A j \in 0..3 :
         ~HipsAndNeckReadable(x_keypoints) => At(x_positions, j) = <<0, 0, 0>>
    /\ \A j \in 4..(NumJoints(x_hands) - 1) :
         LET mhr_idx == At(MHR_TO_BVH_KEYPOINT_MAP, j)
         IN  At(x_positions, j)
               = (IF mhr_idx < Len(x_keypoints)
                  THEN VScale(8, At(x_keypoints, mhr_idx)) ELSE <<0, 0, 0>>)

(***************************************************************************)
(* Properties of get_bvh_joint_order (checked under SpecOrder)             *)
(***************************************************************************)
JointIndices(parent_indices) == 0..(Len(parent_indices) - 1)

Roots(parent_indices) ==
  {i \in JointIndices(parent_indices) : At(parent_indices, i) = -1}

\* a parent index that is out of range or the joint's own index
BadParent(parent_indices, i) ==
  /\ At(parent_indices, i) # -1
  /\ \/ At(parent_indices, i) \notin JointIndices(parent_indices)
     \/ At(parent_indices, i) = i

RECURSIVE ReachesRoot(_, _, _)
ReachesRoot(parent_indices, i, fuel) ==
  IF At(parent_indices, i) = -1 THEN TRUE
  ELSE IF fuel = 0 THEN FALSE
  ELSE ReachesRoot(parent_indices, At(parent_indices, i), fuel - 1)

\* a tree with exactly one root, at any index
IsOneRootTree(parent_indices) ==
  /\ Cardinality(Roots(parent_indices)) = 1
  /\ \A i \in JointIndices(parent_indices) : ~BadParent(parent_indices, i)
  /\ \A i \in JointIndices(parent_indices) :
       ReachesRoot(parent_indices, i, Len(parent_indices))

InvalidTopology(parent_indices) ==
  \/ Cardinality(Roots(parent_indices)) > 1
  \/ \E i \in JointIndices(parent_indices) : BadParent(parent_indices, i)

\* C3: for every tree with exactly one root (at any index, the joints
\* declared in any order) get_bvh_joint_order visits each joint exactly once,
\* the root first, and no joint before its parent.
C3_DepthFirstOrderOfEveryTree ==
  (t_done /\ IsOneRootTree(t_parents)) =>
    /\ t_order # RecursionError
    /\ Len(t_order) = Len(t_parents)
    /\ Range(t_order) = JointIndices(t_parents)
    /\ t_order[1] \in Roots(t_parents)
    /\ \A k \in 1..Len(t_order) :
         \/ At(t_parents, t_order[k]) = -1
         \/ \E m \in 1..(k - 1) : t_order[m] = At(t_parents, t_order[k])

\* C9: a topology with more than one root, or with a parent index that is
\* out of range or the joint's own, is rejected: get_bvh_joint_order returns
\* no joint order for it.
C9_InvalidTopologyRejected ==
  (t_done /\ InvalidTopology(t_parents)) => t_order = RecursionError

(***************************************************************************)
(* Properties of _compute_root_rotation (checked under SpecRoot)           *)
(***************************************************************************)
\* the columns [v, q] (vectors v / sqrt(q)) have length 1 and are pairwise
\* orthogonal
Orthonormal(cols) ==
  /\ \A j \in 1..3 : Dot(cols[j].v, cols[j].v) = cols[j].q
  /\ \A j \in 1..3 : \A k \in (j + 1)..3 : Dot(cols[j].v, cols[k].v) = 0

\* C5: for every keypoint frame, the degenerate ones that use a world-axis
\* fallback included, the columns of the matrix _compute_root_rotation
\* returns are an orthonormal basis.
C5_RootRotationOrthonormal ==
  r_done => Orthonormal(r_rotation)

(***************************************************************************)
(* One MHRtoBVH instance used for a sequence of conversions: the caller    *)
(* keeps the first conversion (made on the fresh instance) and the         *)
(* topology selections of the conversions made after it                    *)
(***************************************************************************)
ReuseSequences == {<<1>>, <<3, 1>>}

ReuseScales == {1, 2}

CallFresh ==
  /\ pc = "idle"
  /\ \E k \in ReuseSequences, s \in ReuseScales, h \in BOOLEAN :
       Enter([has_keypoints |-> TRUE, keypoints_3d |-> k], 30, s, h)
  /\ kept' = NoKept
  /\ UNCHANGED << output_path, tvars, rvars, xvars, hvars, lvars, jvars, wvars, evars >>

\* the next conversion on the same instance, with any input and selection
CallAgain ==
  /\ pc = "returned"
  /\ \E k \in ReuseSequences, s \in ReuseScales, h \in BOOLEAN :
       Enter([has_keypoints |-> TRUE, keypoints_3d |-> k], fps, s, h)
  /\ kept' = IF kept.valid
             THEN [kept EXCEPT !.between = @ \cup {include_hands}]
             ELSE KeptOfCall
  /\ UNCHANGED << output_path, tvars, rvars, xvars, hvars, lvars, jvars, wvars, evars >>

NextReuse ==
  \/ CallFresh
  \/ CallAgain
  \/ ConvertBegin
  \/ SolveFrame
  \/ WriteBvhBegin
  \/ WriteHierarchy
  \/ WriteMotionLine
  \/ SaveAndReturn
  \/ SaveFails

SpecReuse == Init /\ [][NextReuse]_vars

\* the conversion that has returned has the arguments of the first one
RepeatsFirstCall ==
  /\ pc = "returned"
  /\ kept.valid
  /\ kept.keypoints_3d = mhr_params.keypoints_3d
  /\ kept.include_hands = include_hands
  /\ kept.scale = scale

\* C21: a conversion that writes its file returns the same result and the
\* same BVH text as the conversion with the same arguments that was the
\* first call on the fresh instance, whatever conversions were made on the
\* instance between the two.
C21_NothingCarriedBetweenCalls ==
  RepeatsFirstCall /\ result.status = "ok" /\ kept.result.status = "ok" =>
    /\ result = kept.result
    /\ file = kept.file

\* body-only conversion, then conversions with both selections, then the
\* first conversion again, which writes the text of the first
C21_Witness ==
  /\ RepeatsFirstCall
  /\ ~include_hands
  /\ kept.between = BOOLEAN
  /\ result.status = "ok"
  /\ file_written
  /\ file = kept.file
  /\ Len(file) > 0

(***************************************************************************)
(* _compute_rotations on its own, one joint of one frame at a time         *)
(***************************************************************************)
\* hips and shoulders on the Z axis: up and right are both (0,0,1), the
\* forward fallback is (0,0,1) too and the root matrix is singular
DegenerateFrame ==
  WithJointAt(WithJointAt(WithJointAt(WithJointAt(TPoseFrame(1),
    6, <<0, 0, -800>>), 7, <<0, 0, 800>>), 16, <<0, 0, 1600>>), 17, <<0, 0, 1600>>)

JointFrames == <<TPoseFrame(1), BentFrame, ElbowFrame, ZeroBoneFrame, DegenerateFrame>>

JointSequences == {<<1>>, <<2>>, <<3>>, <<4>>, <<5>>, <<5, 1>>, <<2, 5>>}

\* "parent_idx in accumulated_rotations": .get finds the key
AccHas(accumulated, parent_idx) == parent_idx \in 0..(Len(accumulated) - 1)

\* R.from_matrix / as_euler are library code: a proper rotation is
\* converted; whether a NaN matrix, or a finite matrix that is no rotation,
\* is rejected with an exception depends on the installed library, and is
\* the same for every conversion of a call
LibraryBuilds == SUBSET {"nan", "singular"}

from_matrix_raises(raises_on, local_rot) ==
  IF IsProperRotation(local_rot) \/ local_rot = IrrationalMat THEN FALSE
  ELSE IF ~IsFinite(local_rot) THEN "nan" \in raises_on
  ELSE "singular" \in raises_on

\* R.from_matrix keeps a proper rotation; a matrix that is not one is
\* replaced by the rotation nearest to it: the identity for a symmetric
\* matrix P^T P, NaN for NaN, and otherwise a rotation the model cannot hold
from_matrix(local_rot) ==
  IF ~IsFinite(local_rot) \/ IsProperRotation(local_rot) THEN local_rot
  ELSE IF local_rot = MatT(local_rot) THEN EyeMat
  ELSE IrrationalMat

\* variant: the fallback triple is NaN
EulerFallbackNaN == EulerNaN

\* except Exception: euler_rotations[frame, joint_idx] = [0, 0, 0]
EulerFallback == EulerZero

\* _compute_rotations is entered: lines 202-228
JointsCall ==
  /\ j_pc = "idle"
  /\ \E k \in JointSequences, h \in BOOLEAN :
       /\ j_keypoints_3d' = k
       /\ j_include_hands' = h
  /\ j_raises_on' \in LibraryBuilds
  /\ j_pc' = "loop"
  /\ j_frame' = 0
  /\ j_joint_idx' = 0
  /\ j_accumulated' = <<>>
  /\ j_locals' = <<>>
  /\ j_euler_rotations' = << <<>> >>
  /\ j_defaulted' = {}
  /\ j_raised' = {}
  /\ UNCHANGED << cvars, tvars, rvars, xvars, hvars, lvars, wvars, evars >>

\* one pass of "for joint_idx in range(num_joints)": lines 242-299
SolveJoint ==
  /\ j_pc = "loop"
  /\ j_joint_idx < NumJoints(j_include_hands)
  /\ LET kp == JointFrames[At(j_keypoints_3d, j_frame)]
         parent_indices == ParentsFor(j_include_hands)
         parent_idx == At(parent_indices, j_joint_idx)
         bvh_positions == extract_bvh_positions_from_mhr(kp, j_include_hands)
         rest_directions == compute_rest_directions(JointNamesFor(j_include_hands),
                                                    parent_indices)
     IN  \E global_rot \in {joint_global_rotation(kp, parent_indices, bvh_positions,
                               rest_directions, j_accumulated, j_joint_idx)} :
         \E local_rot \in {joint_local_rotation(parent_indices, j_accumulated,
                               j_joint_idx, global_rot)} :
         \E raised \in {from_matrix_raises(j_raises_on, local_rot)} :
           /\ j_accumulated' = Append(j_accumulated, global_rot)
           /\ j_locals' = Append(j_locals, local_rot)
           /\ j_euler_rotations' =
                [j_euler_rotations EXCEPT ![j_frame + 1] =
                   Append(@, IF raised THEN EulerFallback
                             ELSE as_euler_ZXY(from_matrix(local_rot)))]
           /\ j_defaulted' =
                IF parent_idx # -1 /\ ~AccHas(j_accumulated, parent_idx)
                THEN j_defaulted \cup {<<j_frame, j_joint_idx>>} ELSE j_defaulted
           /\ j_raised' = IF raised THEN j_raised \cup {<<j_frame, j_joint_idx>>}
                          ELSE j_raised
  /\ j_joint_idx' = j_joint_idx + 1
  /\ UNCHANGED << j_pc, j_keypoints_3d, j_include_hands, j_frame, j_raises_on,
                  cvars, tvars, rvars, xvars, hvars, lvars, wvars, evars >>

\* the next pass of "for frame in range(num_frames)": lines 230-240
NextFrame ==
  /\ j_pc = "loop"
  /\ j_joint_idx = NumJoints(j_include_hands)
  /\ j_frame + 1 < Len(j_keypoints_3d)
  /\ j_frame' = j_frame + 1
  /\ j_joint_idx' = 0
  /\ j_accumulated' = <<>>
  /\ j_locals' = <<>>
  /\ j_euler_rotations' = Append(j_euler_rotations, <<>>)
  /\ UNCHANGED << j_pc, j_keypoints_3d, j_include_hands, j_defaulted, j_raised,
                  j_raises_on,
                  cvars, tvars, rvars, xvars, hvars, lvars, wvars, evars >>

\* return euler_rotations, translations: line 301
ReturnRotations ==
  /\ j_pc = "loop"
  /\ j_joint_idx = NumJoints(j_include_hands)
  /\ j_frame + 1 = Len(j_keypoints_3d)
  /\ j_pc' = "returned"
  /\ UNCHANGED << j_keypoints_3d, j_include_hands, j_frame, j_joint_idx,
                  j_accumulated, j_locals, j_euler_rotations, j_defaulted,
                  j_raised, j_raises_on, cvars, tvars, rvars, xvars, hvars, lvars,
                  wvars, evars >>

NextJoints ==
  \/ JointsCall
  \/ SolveJoint
  \/ NextFrame
  \/ ReturnRotations

SpecJoints == Init /\ [][NextJoints]_vars

\* C22: in both shipped topologies every non-root joint's parent index is
\* smaller than the joint's own index, and in the joint loop the parent's
\* global rotation is stored whenever a joint is processed: the identity
\* default of accumulated_rotations.get is never used.
C22_ParentSolvedBeforeChild ==
  j_pc # "idle" =>
    /\ \A j \in 1..(NumJoints(j_include_hands) - 1) :
         At(ParentsFor(j_include_hands), j) \in 0..(j - 1)
    /\ j_defaulted = {}

\* the joint loop of a frame with hands has run to its end
C22_Witness ==
  /\ j_pc = "returned"
  /\ j_include_hands
  /\ Len(j_accumulated) = 52
  /\ j_defaulted = {}

(***************************************************************************)
(* The shipped parent tables (checked under Spec, on the table a           *)
(* conversion selects and _write_bvh stores)                               *)
(***************************************************************************)
\* _write_bvh has stored the selected table
TableStored ==
  \/ pc \in {"hierarchy", "motion"}
  \/ pc = "returned" /\ result.status = "ok"

\* C23: the table a conversion selects (22 entries body-only, 52 with the
\* hands) has exactly one joint with parent -1, joint 0; every other parent
\* index is a valid index of the same table; and following parents from any
\* joint reaches joint 0 without a cycle.
C23_ShippedTablesAreTrees ==
  TableStored =>
    /\ Len(self_parent_indices) = IF include_hands THEN 52 ELSE 22
    /\ Roots(self_parent_indices) = {0}
    /\ \A i \in JointIndices(self_parent_indices) :
         /\ ~BadParent(self_parent_indices, i)
         /\ ReachesRoot(self_parent_indices, i, Len(self_parent_indices))

\* a conversion with the hands has returned, its table stored
C23_Witness ==
  /\ pc = "returned"
  /\ result.status = "ok"
  /\ include_hands
  /\ Len(self_parent_indices) = 52
  /\ At(self_parent_indices, 51) = 50

(***************************************************************************)
(* Properties of the joint loop (checked under SpecJoints)                 *)
(***************************************************************************)
\* the frame being solved and what the loop reads of it
JKeypoints == JointFrames[At(j_keypoints_3d, j_frame)]

JParents == ParentsFor(j_include_hands)

JPositions == extract_bvh_positions_from_mhr(JKeypoints, j_include_hands)

JRestDirections ==
  compute_rest_directions(JointNamesFor(j_include_hands), JParents)

\* the joints of the frame solved so far
JSolved == 0..(Len(j_accumulated) - 1)

\* M M^T = I
IsOrthonormalMat(M) == IsFinite(M) /\ MatMul(M, MatT(M)) = EyeMat

\* the product of the local rotations from the root down to joint_idx
RECURSIVE ComposedLocals(_, _, _)
ComposedLocals(locals, parent_indices, joint_idx) ==
  IF At(parent_indices, joint_idx) = -1 THEN At(locals, joint_idx)
  ELSE MatMul(ComposedLocals(locals, parent_indices,
                             At(parent_indices, joint_idx)),
              At(locals, joint_idx))

\* a and b are parallel and point the same way
SameDirection(a, b) == Cross(a, b) = Zero3 /\ Dot(a, b) > 0

\* a solved non-root joint with children whose first child is not at the
\* joint's own position, its rotation one the model can hold
BoneSolved(positions, joint_idx) ==
  /\ joint_idx \in JSolved
  /\ At(JParents, joint_idx) # -1
  /\ Children(JParents, joint_idx) # <<>>
  /\ At(positions, FirstChild(Children(JParents, joint_idx)))
       # At(positions, joint_idx)
  /\ At(j_accumulated, joint_idx) # IrrationalMat

\* the direction from the joint to its first child
BoneDirection(positions, joint_idx) ==
  VSub(At(positions, FirstChild(Children(JParents, joint_idx))),
       At(positions, joint_idx))

\* C24: when the root rotation is orthonormal, for every non-root joint j
\* whose first child c is not at j's position, the product of the local
\* rotations from the root down to j (each emitted as its Euler triple) is
\* j's global rotation, and the global rotation turns rest_direction(j) to
\* the direction from position(j) to position(c).
C24_LocalsComposeToBoneDirection ==
  (j_pc # "idle" /\ j_accumulated # <<>>) =>
    \E positions \in {JPositions} : \E rest_directions \in {JRestDirections} :
      \A joint_idx \in 1..51 :
        (BoneSolved(positions, joint_idx)
           /\ IsOrthonormalMat(At(j_accumulated, 0))) =>
          /\ ComposedLocals(j_locals, JParents, joint_idx)
               = At(j_accumulated, joint_idx)
          /\ At(At(j_euler_rotations, j_frame), joint_idx)
               = as_euler_ZXY(At(j_locals, joint_idx))
          /\ IsOrthonormalMat(At(j_accumulated, joint_idx))
          /\ SameDirection(MatVecDir(At(j_accumulated, joint_idx),
                                     At(rest_directions, joint_idx)),
                           BoneDirection(positions, joint_idx))

\* the frame with the turned upper arm is solved: L_Shoulder (16) has a
\* local rotation that is not the identity, and its global rotation, the
\* product of the local rotations of five joints, turns its rest direction
\* to the elbow
C24_Witness ==
  /\ j_pc = "returned"
  /\ j_keypoints_3d = <<3>>
  /\ BoneSolved(JPositions, 16)
  /\ IsOrthonormalMat(At(j_accumulated, 0))
  /\ At(j_locals, 16) # EyeMat
  /\ At(j_locals, 14) # EyeMat
  /\ ComposedLocals(j_locals, JParents, 16) = At(j_accumulated, 16)
  /\ SameDirection(BoneDirection(JPositions, 16), <<-1, 8, 4>>)
  /\ SameDirection(MatVecDir(At(j_accumulated, 16), At(JRestDirections, 16)),
                   <<-1, 8, 4>>)

\* the solved joints without children in the selected topology whose parent
\* has a rotation the model can hold
LeafJoints ==
  {j \in JSolved : /\ Children(JParents, j) = <<>>
                   /\ At(j_accumulated, At(JParents, j)) # IrrationalMat}

\* C25: for every frame, every joint without children in the selected
\* topology gets the global rotation of its parent and the Euler triple
\* (0, 0, 0).
C25_LeafKeepsParentRotation ==
  j_pc # "idle" =>
    \A joint_idx \in LeafJoints :
      /\ At(j_accumulated, joint_idx)
           = At(j_accumulated, At(JParents, joint_idx))
      /\ At(At(j_euler_rotations, j_frame), joint_idx) = EulerZero

\* every frame of the input has a triple for every joint
AllFramesSolved ==
  /\ Len(j_euler_rotations) = Len(j_keypoints_3d)
  /\ \A f \in 1..Len(j_euler_rotations) :
       Len(j_euler_rotations[f]) = NumJoints(j_include_hands)

\* the joints whose Euler conversion raised have the triple (0, 0, 0)
RaisedGiveZero ==
  \A fj \in j_raised : At(At(j_euler_rotations, fj[1]), fj[2]) = EulerZero

\* the joint loop goes on after a conversion that raised: the joints after
\* it in the frame have their triples
RaisedAreFollowed ==
  \A fj \in j_raised :
    IF fj[1] < j_frame THEN Len(At(j_euler_rotations, fj[1])) = NumJoints(j_include_hands)
    ELSE Len(At(j_euler_rotations, fj[1])) = j_joint_idx /\ fj[2] < j_joint_idx

\* C26: when the conversion of a joint's local rotation to Euler angles
\* raises, the joint's triple for that frame is (0, 0, 0), no error leaves
\* _compute_rotations (the loop stands at the next joint), and the call
\* returns only with every joint of every frame solved and written.
C26_EulerFailureIsContained ==
  /\ RaisedGiveZero
  /\ RaisedAreFollowed
  /\ j_pc \in {"idle", "loop", "returned"}
  /\ j_pc = "returned" => AllFramesSolved

\* the conversion raised for a joint of the first frame; the call has
\* returned with the second frame solved (R_Collar turned by 180 degrees)
C26_Witness ==
  /\ j_pc = "returned"
  /\ j_keypoints_3d = <<5, 1>>
  /\ \E joint_idx \in 0..51 :
       /\ <<0, joint_idx>> \in j_raised
       /\ At(At(j_euler_rotations, 0), joint_idx) = EulerZero
       /\ At(j_locals, joint_idx) # EyeMat
  /\ AllFramesSolved
  /\ At(At(j_euler_rotations, 1), 15) # EulerZero

(***************************************************************************)
(* What convert_to_bvh returns (checked under Spec)                        *)
(***************************************************************************)
\* the dict of the returned tuple is {}
EmptyDict(r) ==
  [r EXCEPT !.status = "none", !.error = "", !.info = <<>>] = NoResult

\* (bvh_data, str(output_path.absolute()), info)
ReturnedSuccess ==
  /\ result.status = "ok"
  /\ file_written
  /\ result.returned_path.absolute
  /\ result.returned_path.suffix = ".bvh"
  /\ result.file_path = result.returned_path
  /\ result.joint_names # <<>>
  /\ result.info[1] = "MHRtoBVH Complete"

\* ({}, "", error_msg)
ReturnedFailure ==
  /\ result.status = "error"
  /\ EmptyDict(result)
  /\ result.returned_path = ""
  /\ result.info = <<"MHRtoBVH failed: ", result.error>>

\* C27: every call of convert_to_bvh ends by returning: on success the
\* metadata dict, the absolute path of the file, which ends in .bvh, and the
\* info text; on a failure at any step an empty dict, an empty path and a
\* message that starts with "MHRtoBVH failed:".
C27_EveryCallReturnsATuple ==
  /\ pc \in {"idle", "begin", "solve", "hierarchy", "motion", "returned"}
  /\ pc = "returned" => (ReturnedSuccess \/ ReturnedFailure)

\* a conversion to "motion.txt" has written "motion.bvh"; the same conversion
\* made again has failed at the file write
C27_Witness ==
  /\ pc = "returned"
  /\ output_path.suffix = ".txt"
  /\ kept.valid
  /\ kept.result.status = "ok"
  /\ kept.result.returned_path = [absolute |-> TRUE, name |-> "motion", suffix |-> ".bvh"]
  /\ ReturnedFailure
  /\ result.error = WriteFailed

(***************************************************************************)
(* Two threads in _write_bvh on one instance.  The attributes              *)
(* self._joint_names and self._parent_indices are shared; everything else  *)
(* is local to a thread.  A thread can be interrupted between the two      *)
(* assignments and between two calls of _write_joint.  The recursion of    *)
(* _write_joint is a stack of the calls still to make (<<"visit", joint,   *)
(* indent_level>>) and the blocks still to close (<<"close", level>>).     *)
(***************************************************************************)
HandsOf(t) == t = 1

ThreadScale == 1

\* what the threads leave alone
OtherThanAttributes ==
  << pc, output_path, mhr_params, fps, scale, include_hands, dir_created,
     frame, euler_rotations, translations, accumulated_rotations, joint_order,
     lines, file, file_written, result, kept >>

\* the returns of _write_joint that follow without a read of the instance:
\* each appends the closing brace of its block
RECURSIVE Unwind(_, _)
Unwind(text, stack) ==
  IF stack # <<>> /\ Head(stack)[1] = "close"
  THEN Unwind(Append(text, Line("}", 2 * Head(stack)[2], "", 0, <<>>)),
              Tail(stack))
  ELSE [text |-> text, stack |-> stack]

\* convert_to_bvh is called in thread t and reaches _write_bvh
ThreadCall(t) ==
  /\ w_pc[t] = "idle"
  /\ w_pc' = [w_pc EXCEPT ![t] = "entered"]
  /\ UNCHANGED << w_stack, w_lines, cvars, tvars, rvars, xvars, hvars, lvars, jvars, evars >>

\* self._joint_names = joint_names
StoreJointNames(t) ==
  /\ w_pc[t] = "entered"
  /\ self_joint_names' = SetAttr(self_joint_names, JointNamesFor(HandsOf(t)))
  /\ w_pc' = [w_pc EXCEPT ![t] = "names stored"]
  /\ UNCHANGED << self_parent_indices, OtherThanAttributes, w_stack, w_lines,
                  tvars, rvars, xvars, hvars, lvars, jvars, evars >>

\* self._parent_indices = parent_indices; lines = ["HIERARCHY"]; the call
\* self._write_joint(lines, 0, 0, scale) is next
StoreParentIndices(t) ==
  /\ w_pc[t] = "names stored"
  /\ self_parent_indices' = SetAttr(self_parent_indices, ParentsFor(HandsOf(t)))
  /\ w_lines' = [w_lines EXCEPT ![t] = << Line("HIERARCHY", 0, "", 0, <<>>) >>]
  /\ w_stack' = [w_stack EXCEPT ![t] = << <<"visit", 0, 0>> >>]
  /\ w_pc' = [w_pc EXCEPT ![t] = "writing"]
  /\ UNCHANGED << self_joint_names, OtherThanAttributes,
                  tvars, rvars, xvars, hvars, lvars, jvars, evars >>

\* one call of _write_joint up to its first recursive call (or, for a joint
\* without children, to its return): it reads self._joint_names[joint_idx],
\* which raises IndexError outside the list, and self._parent_indices
WriteJoint(t) ==
  /\ w_pc[t] = "writing"
  /\ LET joint_idx    == Head(w_stack[t])[2]
         indent_level == Head(w_stack[t])[3]
         children     == Children(self_parent_indices, joint_idx)
         header == JointHeader(joint_idx, 2 * indent_level,
                               At(self_joint_names, joint_idx), ThreadScale)
         calls  == [i \in 1..Len(children) |->
                      <<"visit", children[i], indent_level + 1>>]
         after  == Unwind(w_lines[t] \o header
                            \o (IF children = <<>>
                                THEN EndSiteLines(2 * indent_level) ELSE <<>>),
                          calls \o << <<"close", indent_level>> >>
                            \o Tail(w_stack[t]))
     IN  IF joint_idx >= Len(self_joint_names)
         THEN /\ w_pc' = [w_pc EXCEPT ![t] = "IndexError"]
              /\ UNCHANGED << w_stack, w_lines >>
         ELSE /\ w_lines' = [w_lines EXCEPT ![t] = after.text]
              /\ w_stack' = [w_stack EXCEPT ![t] = after.stack]
              /\ w_pc' = [w_pc EXCEPT ![t] =
                            IF after.stack = <<>> THEN "written" ELSE "writing"]
  /\ UNCHANGED << cvars, tvars, rvars, xvars, hvars, lvars, jvars, evars >>

NextThreads ==
  \/ \E t \in Threads : ThreadCall(t)
  \/ \E t \in Threads : StoreJointNames(t)
  \/ \E t \in Threads : StoreParentIndices(t)
  \/ \E t \in Threads : WriteJoint(t)

SpecThreads == Init /\ [][NextThreads]_vars

\* C28: of two convert_to_bvh calls that run concurrently on one instance,
\* one with include_hands=True and one with include_hands=False, each writes
\* the hierarchy it writes when run alone: _write_joint never reads the joint
\* names or parent indices the other call has set.
C28_ConcurrentCallsDoNotInterfere ==
  \A t \in Threads :
    /\ w_pc[t] # "IndexError"
    /\ w_pc[t] = "written" =>
         w_lines[t] = << Line("HIERARCHY", 0, "", 0, <<>>) >>
                      \o write_joint(JointNamesFor(HandsOf(t)),
                                     ParentsFor(HandsOf(t)), 0, 0, ThreadScale)

(***************************************************************************)
(* MHRToFBX.export_to_fbx (src/nodes/mhr_to_fbx_node.py).  The two steps   *)
(* it calls are taken by their returned tuples: convert_to_bvh returns     *)
(* ({}, "", message) on a failure and the path of the written file         *)
(* otherwise; BVHtoFBX.retarget returns ("", message) on a failure.        *)
(***************************************************************************)
\* mhr_params: the entry "num_frames" and keypoints_3d (None or an array
\* of "frames" frames)
ExportParams ==
  {[num_frames |-> n, has_keypoints |-> FALSE, frames |-> 0] : n \in {0, 2}}
  \cup {[num_frames |-> n, has_keypoints |-> TRUE, frames |-> f] :
          n \in {0, 2}, f \in 0..MaxFrames}

\* character_path: empty, the path of no file, the path of a file
CharacterPaths == {"", "missing.fbx", "character.fbx"}

ExportFps == {0, 30}

\* what convert_to_bvh can do with the arguments: it fails without
\* keypoints, with no frame and with fps = 0, and the file write can fail
ConvertOutcomes(params, f) ==
  IF ~params.has_keypoints \/ params.frames = 0 \/ f = 0 THEN {"failed"}
  ELSE {"ok", "failed"}

ExportError(msg) == <<"", 0, <<"MHRToFBX failed: ", msg>> >>

\* if not bvh_file_path or not Path(bvh_file_path).exists()
ConversionFailed(bvh_file_path, exists) == bvh_file_path = "" \/ ~exists

ExportCall ==
  /\ e_pc \in {"idle", "returned"}
  /\ e_mhr_params' \in ExportParams
  /\ e_character_path' \in CharacterPaths
  /\ e_fps' \in ExportFps
  /\ e_pc' = "validate"
  /\ e_num_frames' = 0
  /\ e_temp_dir' = "none"
  /\ e_bvh_file' = FALSE
  /\ e_retargeted' = FALSE
  /\ e_result' = <<>>
  /\ UNCHANGED << cvars, tvars, rvars, xvars, hvars, lvars, jvars, wvars >>

\* lines 114-127: the character path is checked, num_frames is read
ExportValidate ==
  /\ e_pc = "validate"
  /\ IF e_character_path = ""
     THEN /\ e_pc' = "returned"
          /\ e_result' = ExportError("Character path is empty")
          /\ UNCHANGED e_num_frames
     ELSE IF e_character_path = "missing.fbx"
     THEN /\ e_pc' = "returned"
          /\ e_result' = ExportError("Character file not found")
          /\ UNCHANGED e_num_frames
     ELSE /\ e_pc' = "mkdtemp"
          /\ e_num_frames' =
               IF e_mhr_params.num_frames = 0 /\ e_mhr_params.has_keypoints
               THEN e_mhr_params.frames ELSE e_mhr_params.num_frames
          /\ UNCHANGED e_result
  /\ UNCHANGED << e_mhr_params, e_character_path, e_fps, e_temp_dir,
                  e_bvh_file, e_retargeted,
                  cvars, tvars, rvars, xvars, hvars, lvars, jvars, wvars >>

\* line 137: temp_dir = tempfile.mkdtemp(...), which can raise OSError
ExportMakeTempDir ==
  /\ e_pc = "mkdtemp"
  /\ \/ /\ e_temp_dir' = "exists"
        /\ e_pc' = "convert"
        /\ UNCHANGED e_result
     \/ /\ e_pc' = "returned"
        /\ e_result' = ExportError("[Errno 28] No space left on device")
        /\ UNCHANGED e_temp_dir
  /\ UNCHANGED << e_mhr_params, e_character_path, e_fps, e_num_frames,
                  e_bvh_file, e_retargeted,
                  cvars, tvars, rvars, xvars, hvars, lvars, jvars, wvars >>

\* lines 140-150: the conversion and the check of what it returned
ExportConvert ==
  /\ e_pc = "convert"
  /\ \E outcome \in ConvertOutcomes(e_mhr_params, e_fps) :
       LET bvh_file_path == IF outcome = "ok" THEN "mhr_motion.bvh" ELSE ""
           exists == outcome = "ok"
       IN  /\ e_bvh_file' = exists
           /\ IF ConversionFailed(bvh_file_path, exists)
              THEN /\ e_pc' = "returned"
                   /\ e_result' = ExportError("BVH conversion failed")
              ELSE /\ e_pc' = "retarget"
                   /\ UNCHANGED e_result
  /\ UNCHANGED << e_mhr_params, e_character_path, e_fps, e_num_frames,
                  e_temp_dir, e_retargeted,
                  cvars, tvars, rvars, xvars, hvars, lvars, jvars, wvars >>

\* lines 157-167: the retargeting and the check of what it returned
ExportRetarget ==
  /\ e_pc = "retarget"
  /\ e_retargeted' = TRUE
  /\ \E fbx_path \in {"", "mhr_animated.fbx"} :
       IF fbx_path = ""
       THEN /\ e_pc' = "returned"
            /\ e_result' = ExportError("FBX retargeting failed")
       ELSE /\ e_pc' = "cleanup"
            /\ e_result' = <<fbx_path>>
  /\ UNCHANGED << e_mhr_params, e_character_path, e_fps, e_num_frames,
                  e_temp_dir, e_bvh_file,
                  cvars, tvars, rvars, xvars, hvars, lvars, jvars, wvars >>

\* lines 171-193: shutil.rmtree(temp_dir, ignore_errors=True) and the
\* return of (fbx_path, num_frames, info)
ExportCleanupAndReturn ==
  /\ e_pc = "cleanup"
  /\ e_temp_dir' = "removed"
  /\ e_bvh_file' = FALSE
  /\ e_result' = <<e_result[1], e_num_frames, <<"MHR to FBX Export Complete">> >>
  /\ e_pc' = "returned"
  /\ UNCHANGED << e_mhr_params, e_character_path, e_fps, e_num_frames,
                  e_retargeted,
                  cvars, tvars, rvars, xvars, hvars, lvars, jvars, wvars >>

NextExport ==
  \/ ExportCall
  \/ ExportValidate
  \/ ExportMakeTempDir
  \/ ExportConvert
  \/ ExportRetarget
  \/ ExportCleanupAndReturn

SpecExport == Init /\ [][NextExport]_vars

\* C29: the temporary directory made for the intermediate BVH file is
\* removed on every path that leaves export_to_fbx after its creation, also
\* when the conversion or the retargeting fails; and the retargeting is
\* started only after a conversion that returned an existing BVH file.
C29_TempDirRemovedOnEveryPath ==
  /\ e_pc = "returned" => e_temp_dir # "exists"
  /\ e_retargeted => e_bvh_file \/ e_temp_dir = "removed"

(***************************************************************************)
(* The HIERARCHY block (checked under Spec, when _write_joint has          *)
(* returned to _write_bvh)                                                 *)
(***************************************************************************)
\* _write_bvh has the hierarchy and the MOTION header in lines
HierarchyWritten == pc = "motion" /\ frame = 0

\* the distance of a joint from the root
RECURSIVE Depth(_, _)
Depth(parent_indices, joint_idx) ==
  IF At(parent_indices, joint_idx) = -1 THEN 0
  ELSE 1 + Depth(parent_indices, At(parent_indices, joint_idx))

RECURSIVE IsAncestor(_, _, _)
IsAncestor(parent_indices, a, joint_idx) ==
  /\ At(parent_indices, joint_idx) # -1
  /\ \/ At(parent_indices, joint_idx) = a
     \/ IsAncestor(parent_indices, a, At(parent_indices, joint_idx))

\* the position of the ROOT / JOINT line of a joint
HeaderOf(text, joint_idx) ==
  CHOOSE i \in 1..Len(text) :
    /\ text[i].t \in {"ROOT", "JOINT"}
    /\ text[i].name = At(self_joint_names, joint_idx)

\* the "}" line that closes the "{" line at position i: the next one at the
\* same indentation (0 if there is none)
CloseOf(text, i) ==
  LET closing == {k \in (i + 1)..Len(text) :
                    text[k].t = "}" /\ text[k].ind = text[i].ind}
  IN  IF closing = {} THEN 0
      ELSE CHOOSE k \in closing : \A m \in closing : k <= m

\* every "{" has its "}" at the same indentation, with only deeper lines
\* between the two, and there are as many "}" as "{"
BracesMatch(text) ==
  /\ \A i \in 1..Len(text) :
       text[i].t = "{" =>
         /\ CloseOf(text, i) # 0
         /\ \A m \in (i + 1)..(CloseOf(text, i) - 1) : text[m].ind > text[i].ind
  /\ Cardinality({i \in 1..Len(text) : text[i].t = "{"})
       = Cardinality({i \in 1..Len(text) : text[i].t = "}"})

\* the block of a joint holds the blocks of its descendants and no other,
\* its children in index order; the joint is indented by twice its depth.
\* header[j + 1] and close[j + 1] are the positions of the ROOT / JOINT line
\* of joint j and of the "}" that closes its block.
NestsAsTreeAt(text, parent_indices, header, close) ==
  \A j \in JointIndices(parent_indices) :
    /\ text[header[j + 1]].ind = 2 * Depth(parent_indices, j)
    /\ text[header[j + 1] + 1].t = "{"
    /\ text[header[j + 1] + 1].ind = text[header[j + 1]].ind
    /\ \A c \in JointIndices(parent_indices) :
         (header[c + 1] \in (header[j + 1] + 2)..(close[j + 1] - 1))
           <=> IsAncestor(parent_indices, j, c)
    /\ \A c \in JointIndices(parent_indices) :
         \A d \in JointIndices(parent_indices) :
           (At(parent_indices, c) = j /\ At(parent_indices, d) = j /\ c < d)
             => close[c + 1] < header[d + 1]

NestsAsTree(text, parent_indices) ==
  \E header \in {ToList([i \in 1..Len(parent_indices) |-> HeaderOf(text, i - 1)])} :
  \E close \in {ToList([i \in 1..Len(parent_indices) |-> CloseOf(text, header[i] + 1)])} :
    NestsAsTreeAt(text, parent_indices, header, close)

\* C30: in the HIERARCHY block every "{" line is closed by a "}" line at the
\* same indentation, the blocks nest as the joint tree (the block of a joint
\* holds exactly the blocks of its descendants, in child index order), and a
\* joint at depth d is indented by 2 d spaces.
C30_BlocksNestAsJointTree ==
  HierarchyWritten =>
    /\ BracesMatch(lines)
    /\ NestsAsTree(lines, self_parent_indices)

\* the hierarchy with the hands is written: L_Thumb3 (24), at depth 10, is
\* indented by 20 spaces and its block ends with its End Site block
C30_Witness ==
  /\ HierarchyWritten
  /\ include_hands
  /\ Depth(self_parent_indices, 24) = 10
  /\ lines[HeaderOf(lines, 24)].ind = 20
  /\ CloseOf(lines, HeaderOf(lines, 24) + 1) = HeaderOf(lines, 24) + 8

=============================================================================
